---- MODULE Spec2Model ----
(***************************************************************************)
(* SpecFusion: the document store (api/src/services/doc-store.ts), its     *)
(* schema with the FTS5 index and triggers (api/db/schema.sql), the        *)
(* tokenizer, the admin routes that write to the store, the search engine  *)
(* behind GET /search (api/src/services/search-engine.ts), the sync runner *)
(* that feeds the store (scrapers/src/sync.ts) and the source adapters it  *)
(* drives (scrapers/src/sources).                                          *)
(*                                                                         *)
(* Strings.  A text (title, content, search query) is a sequence of the    *)
(* pieces the tokenizer's scan cuts it into: the matches of PROTECTED_RE   *)
(* and the segments of the Chinese segmenter, in order.  The text itself   *)
(* is the concatenation of its pieces (Raw); what a column stores is a     *)
(* TLA+ string.  A path is the sequence of its '/'-separated segments.     *)
(* A request body is a record; an optional property that is not given is   *)
(* absent from the record's DOMAIN (JavaScript's undefined).               *)
(*                                                                         *)
(* The server is one Node.js process with one synchronous SQLite           *)
(* connection: a request handler runs to completion, so each handler is    *)
(* one action.  The sync runner is another process; its steps are the      *)
(* points at which an awaited promise settles.                             *)
(*                                                                         *)
(* Specifications.  Spec: authorised admin requests.  AuthSpec: admin      *)
(* requests with any Authorization header.  SearchSpec: searches over a    *)
(* store that admin requests fill and change.  SyncSpec: runs of           *)
(* syncSource against the server.  CliSpec: the commands of the scraper    *)
(* program.  RunSpec: one run of syncSource.  TaobaoSpec: a run with the   *)
(* Taobao adapter, its session and its retries.  WecomSpec: the throttle   *)
(* and the retries of the Wecom adapter.  RenderSpec: schemas of an        *)
(* OpenAPI spec rendered to Markdown.  SummarySpec: summaries of stored    *)
(* documents.                                                              *)
(***************************************************************************)
EXTENDS Integers, Sequences, FiniteSets, TLC

VARIABLES
    documents,      \* table documents: id -> row
    documents_fts,  \* FTS5 index: set of [rowid, title, content] entries
    sources,        \* table sources: id -> row
    error_codes,    \* table error_codes: <<source_id, code>> -> row
    ec_seq,         \* AUTOINCREMENT counter of error_codes.id
    clock,          \* wall clock, one tick per request
    resp,           \* the last request and the response it got
    held,           \* history: id -> the content_hash the row held before
                    \* its most recent rewrite (NULL when never rewritten)
    issued,         \* history: the <<source_id, path, id>> of every row
                    \* that was in documents before the last request
    search_log,     \* table search_log: the rows in the order of their id
    sync_log,       \* table sync_log: the rows in the order of their id
    sync,           \* the scraper process: one run of syncSource
    adapters        \* the source adapters of the scraper process

vars == <<documents, documents_fts, sources, error_codes, ec_seq, clock, resp,
          held, issued, search_log, sync_log, sync, adapters>>

\* Number of requests a behaviour serves (each request reads the clock once).
MaxClock == 3

NULL == "NULL"

----------------------------------------------------------------------------
\* Generic helpers

Put(f, k, v) == [x \in (DOMAIN f) \cup {k} |-> IF x = k THEN v ELSE f[x]]

Del(f, k) == [x \in (DOMAIN f) \ {k} |-> f[x]]

Has(o, k) == k \in DOMAIN o

\* JavaScript's `o.k ?? dflt`
Coalesce(o, k, dflt) == IF Has(o, k) THEN o[k] ELSE dflt

RECURSIVE Join(_, _)
Join(s, sep) ==
    IF s = <<>> THEN ""
    ELSE IF Len(s) = 1 THEN s[1]
    ELSE s[1] \o sep \o Join(Tail(s), sep)

\* The text a sequence of pieces stands for.
Raw(text) == Join(text, "")

SetMax(S) == IF S = {} THEN 0 ELSE CHOOSE m \in S : \A n \in S : n <= m

----------------------------------------------------------------------------
\* Tokenizer (api/src/services/tokenizer.ts)

\* Three of the twenty stop words, in pinyin: U+7684, U+4E86, U+662F.
STOP_WORDS == {"de", "le", "shi"}

\* Pieces matched by PROTECTED_RE: identifiers, digit runs, API paths.
ProtectedPieces ==
    {"access_token", "Access_Token", "access", "token", "errcode", "OR",
     "contact:user_id", "40001", "60011", "99999", "/cgi-bin/send",
     "/cgi-bin/message/send", "/cgi-bin/message"}

isPunctuation(s) == s \in {",", ".", " ", "-", ":", "_"}

\* processChineseSegment keeps a segment unless it is blank, a stop word or
\* punctuation; a protected match is pushed as it is.
KeepsPiece(p) ==
    \/ p \in ProtectedPieces
    \/ /\ p # ""
       /\ p \notin STOP_WORDS
       /\ ~isPunctuation(p)

\* nodejieba.cutForSearch also gives the words inside a dictionary word.
cutForSearch(p) ==
    IF p = "yingyongxiaoxi" THEN <<"yingyong", "xiaoxi", "yingyongxiaoxi">>
    ELSE <<p>>

RECURSIVE Segments(_, _)
\* The tokens segmentText collects, before it joins them.
Segments(text, forSearch) ==
    IF text = <<>> THEN <<>>
    ELSE LET p   == Head(text)
             cut == IF forSearch /\ p \notin ProtectedPieces
                    THEN cutForSearch(p) ELSE <<p>>
         IN  SelectSeq(cut, KeepsPiece) \o Segments(Tail(text), forSearch)

segmentText(text, forSearch) == Join(Segments(text, forSearch), " ")

tokenize(text) == segmentText(text, FALSE)

----------------------------------------------------------------------------
\* doc-store.ts helpers

\* SHA-256 as a collision-free digest of the hashed string.
sha256(s) == "sha256(" \o s \o ")"

\* sha256(path).slice(0, 12)
hash12(s) == "h12(" \o s \o ")"

now == "T" \o ToString(clock)

makeDocId(sourceId, pathStr) == sourceId \o "_" \o hash12(pathStr)

PathStr(path) == Join(path, "/")

NonEmptySeg(seg) == seg # ""

\* doc.path.split('/').filter(Boolean).length || 1
pathDepthOf(path) ==
    LET n == Len(SelectSeq(path, NonEmptySeg))
    IN  IF n = 0 THEN 1 ELSE n

RECURSIVE JsonPairs(_)
JsonPairs(m) ==
    IF m = <<>> THEN ""
    ELSE "\"" \o m[1][1] \o "\":\"" \o m[1][2] \o "\""
         \o (IF Len(m) > 1 THEN "," ELSE "") \o JsonPairs(Tail(m))

\* JSON.stringify of a flat object given as a sequence of <<key, value>>.
JSONstringify(m) == "{" \o JsonPairs(m) \o "}"

----------------------------------------------------------------------------
\* schema.sql: rowids, the FTS5 index and its triggers

\* documents has a TEXT primary key, so SQLite gives a new row the rowid
\* one above the largest rowid in the table.
NewRowid(docs) == SetMax({docs[i].rowid : i \in DOMAIN docs}) + 1

FtsEntry(rowid, title, content) ==
    [rowid |-> rowid, title |-> title, content |-> content]

\* INSERT INTO documents_fts(rowid, title, content)
FtsInsert(fts, rowid, title, content) ==
    fts \cup {FtsEntry(rowid, title, content)}

\* INSERT INTO documents_fts(documents_fts, rowid, title, content)
\* VALUES ('delete', ...): removes what was indexed for the rowid from the
\* given values.  When they are not the values that were indexed, the
\* postings of the indexed values stay behind.
FtsDelete(fts, rowid, title, content) ==
    fts \ {FtsEntry(rowid, title, content)}

documents_ai(fts, new) ==
    FtsInsert(fts, new.rowid, new.tokenized_title, new.tokenized_content)

documents_ad(fts, old) ==
    FtsDelete(fts, old.rowid, old.tokenized_title, old.tokenized_content)

documents_au(fts, old, new) ==
    FtsInsert(FtsDelete(fts, old.rowid, old.tokenized_title, old.tokenized_content),
              new.rowid, new.tokenized_title, new.tokenized_content)

\* INSERT INTO documents_fts(documents_fts) VALUES('rebuild'): the index
\* is emptied and rebuilt from the content table of the declaration
\* (content='documents'), reading the columns named like the FTS columns:
\* title and content.
FtsRebuild(docs) ==
    {FtsEntry(docs[i].rowid, docs[i].title, docs[i].content) : i \in DOMAIN docs}

\* A store: the documents table with its index.
Store(docs, fts) == [documents |-> docs, fts |-> fts]

SqlInsertDocument(st, row) ==
    LET new == [row EXCEPT !.rowid = NewRowid(st.documents)]
    IN  Store(Put(st.documents, new.id, new), documents_ai(st.fts, new))

SqlUpdateDocument(st, id, new) ==
    Store(Put(st.documents, id, new), documents_au(st.fts, st.documents[id], new))

SqlDeleteDocument(st, id) ==
    Store(Del(st.documents, id), documents_ad(st.fts, st.documents[id]))

----------------------------------------------------------------------------
\* doc-store.ts: document CRUD

\* doc.metadata ? JSON.stringify(doc.metadata) : null
MetadataOf(doc) == IF Has(doc, "metadata") THEN JSONstringify(doc.metadata) ELSE NULL

\* The row bound by the INSERT statement (rowid is given by the table).
InsertRow(doc, docId, pathDepth, contentHash, metadata, ts) ==
    [ id                |-> docId,
      rowid             |-> 0,
      source_id         |-> doc.source_id,
      path              |-> PathStr(doc.path),
      path_depth        |-> pathDepth,
      title             |-> Raw(doc.title),
      api_path          |-> Coalesce(doc, "api_path", NULL),
      dev_mode          |-> Coalesce(doc, "dev_mode", NULL),
      doc_type          |-> Coalesce(doc, "doc_type", "api_reference"),
      content           |-> Raw(doc.content),
      content_hash      |-> contentHash,
      prev_content_hash |-> NULL,
      source_url        |-> Coalesce(doc, "source_url", NULL),
      metadata          |-> metadata,
      tokenized_title   |-> Coalesce(doc, "tokenized_title", NULL),
      tokenized_content |-> Coalesce(doc, "tokenized_content", NULL),
      last_updated      |-> Coalesce(doc, "last_updated", ts),
      synced_at         |-> ts ]

\* Mutant of UpdateRow: the UPDATE statement leaves dev_mode and metadata out.
UpdateRowKeepsMode(old, doc, pathDepth, contentHash, metadata, ts) ==
    [ old EXCEPT
      !.title             = Raw(doc.title),
      !.content           = Raw(doc.content),
      !.content_hash      = contentHash,
      !.prev_content_hash = old.content_hash,
      !.api_path          = Coalesce(doc, "api_path", NULL),
      !.doc_type          = Coalesce(doc, "doc_type", "api_reference"),
      !.source_url        = Coalesce(doc, "source_url", NULL),
      !.tokenized_title   = Coalesce(doc, "tokenized_title", NULL),
      !.tokenized_content = Coalesce(doc, "tokenized_content", NULL),
      !.last_updated      = Coalesce(doc, "last_updated", ts),
      !.synced_at         = ts,
      !.path_depth        = pathDepth ]

\* Mutant of UpdateRow: prev_content_hash takes the new hash.
UpdateRowPrevIsNew(old, doc, pathDepth, contentHash, metadata, ts) ==
    [ old EXCEPT
      !.title             = Raw(doc.title),
      !.content           = Raw(doc.content),
      !.content_hash      = contentHash,
      !.prev_content_hash = contentHash,
      !.api_path          = Coalesce(doc, "api_path", NULL),
      !.dev_mode          = Coalesce(doc, "dev_mode", NULL),
      !.doc_type          = Coalesce(doc, "doc_type", "api_reference"),
      !.source_url        = Coalesce(doc, "source_url", NULL),
      !.metadata          = metadata,
      !.tokenized_title   = Coalesce(doc, "tokenized_title", NULL),
      !.tokenized_content = Coalesce(doc, "tokenized_content", NULL),
      !.last_updated      = Coalesce(doc, "last_updated", ts),
      !.synced_at         = ts,
      !.path_depth        = pathDepth ]

\* The row the UPDATE statement leaves: id, rowid, source_id and path stay.
UpdateRow(old, doc, pathDepth, contentHash, metadata, ts) ==
    [ old EXCEPT
      !.title             = Raw(doc.title),
      !.content           = Raw(doc.content),
      !.content_hash      = contentHash,
      !.prev_content_hash = old.content_hash,
      !.api_path          = Coalesce(doc, "api_path", NULL),
      !.dev_mode          = Coalesce(doc, "dev_mode", NULL),
      !.doc_type          = Coalesce(doc, "doc_type", "api_reference"),
      !.source_url        = Coalesce(doc, "source_url", NULL),
      !.metadata          = metadata,
      !.tokenized_title   = Coalesce(doc, "tokenized_title", NULL),
      !.tokenized_content = Coalesce(doc, "tokenized_content", NULL),
      !.last_updated      = Coalesce(doc, "last_updated", ts),
      !.synced_at         = ts,
      !.path_depth        = pathDepth ]

\* Mutant of upsertDocument: a repeated content still stamps synced_at.
upsertDocumentTouching(st, doc, ts) ==
    LET docId       == makeDocId(doc.source_id, PathStr(doc.path))
        contentHash == sha256(Raw(doc.content))
        metadata    == MetadataOf(doc)
        pathDepth   == pathDepthOf(doc.path)
    IN  IF docId \in DOMAIN st.documents
        THEN IF st.documents[docId].content_hash = contentHash
             THEN [store  |-> SqlUpdateDocument(st, docId,
                                 [st.documents[docId] EXCEPT !.synced_at = ts]),
                   doc_id |-> docId, action |-> "unchanged"]
             ELSE [store  |-> SqlUpdateDocument(st, docId,
                                 UpdateRow(st.documents[docId], doc, pathDepth,
                                           contentHash, metadata, ts)),
                   doc_id |-> docId, action |-> "updated"]
        ELSE [store  |-> SqlInsertDocument(st,
                             InsertRow(doc, docId, pathDepth, contentHash, metadata, ts)),
              doc_id |-> docId, action |-> "created"]

\* upsertDocument(doc): [store, doc_id, action]
upsertDocument(st, doc, ts) ==
    LET docId       == makeDocId(doc.source_id, PathStr(doc.path))
        contentHash == sha256(Raw(doc.content))
        metadata    == MetadataOf(doc)
        pathDepth   == pathDepthOf(doc.path)
    IN  IF docId \in DOMAIN st.documents
        THEN IF st.documents[docId].content_hash = contentHash
             THEN [store |-> st, doc_id |-> docId, action |-> "unchanged"]
             ELSE [store  |-> SqlUpdateDocument(st, docId,
                                 UpdateRow(st.documents[docId], doc, pathDepth,
                                           contentHash, metadata, ts)),
                   doc_id |-> docId, action |-> "updated"]
        ELSE [store  |-> SqlInsertDocument(st,
                             InsertRow(doc, docId, pathDepth, contentHash, metadata, ts)),
              doc_id |-> docId, action |-> "created"]

\* One turn of the loop of runBulk: [store, action], action "throw" when a
\* statement or a helper throws.  sha256(undefined) throws a TypeError (in
\* makeDocId for a missing path, then for a missing content), and the
\* INSERT and UPDATE statements throw on an undefined title (it cannot be
\* bound, and the column is NOT NULL).
BulkTurn(st, doc, ts) ==
    IF ~Has(doc, "path") \/ ~Has(doc, "content")
    THEN [store |-> st, action |-> "throw"]
    ELSE
    LET docId       == makeDocId(doc.source_id, PathStr(doc.path))
        contentHash == sha256(Raw(doc.content))
        metadata    == MetadataOf(doc)
        pathDepth   == pathDepthOf(doc.path)
    IN  IF docId \in DOMAIN st.documents
        THEN IF st.documents[docId].content_hash = contentHash
             THEN [store |-> st, action |-> "unchanged"]
             ELSE IF ~Has(doc, "title")
             THEN [store |-> st, action |-> "throw"]
             ELSE [store  |-> SqlUpdateDocument(st, docId,
                                 UpdateRow(st.documents[docId], doc, pathDepth,
                                           contentHash, metadata, ts)),
                   action |-> "updated"]
        ELSE IF ~Has(doc, "title")
             THEN [store |-> st, action |-> "throw"]
             ELSE [store  |-> SqlInsertDocument(st,
                                 InsertRow(doc, docId, pathDepth, contentHash, metadata, ts)),
                   action |-> "created"]

Bump(result, action) == [result EXCEPT ![action] = @ + 1]

\* The for loop of runBulk: the stores after each turn (trace), the counts
\* and whether a turn threw.
RECURSIVE BulkLoop(_, _, _, _, _)
BulkLoop(st, docs, ts, result, trace) ==
    IF docs = <<>>
    THEN [store |-> st, result |-> result, threw |-> FALSE, trace |-> trace]
    ELSE LET turn == BulkTurn(st, Head(docs), ts)
         IN  IF turn.action = "throw"
             THEN [store |-> st, result |-> result, threw |-> TRUE, trace |-> trace]
             ELSE BulkLoop(turn.store, Tail(docs), ts, Bump(result, turn.action),
                           Append(trace, turn.store))

\* Mutant of CountBySource: the count is taken without the WHERE clause.
CountAllSources(docs, source) == Cardinality(DOMAIN docs)

\* SELECT COUNT(*) FROM documents WHERE source_id = ?
CountBySource(docs, source) ==
    Cardinality({i \in DOMAIN docs : docs[i].source_id = source})

\* UPDATE sources SET doc_count = ? WHERE id = ?
SetDocCount(srcs, source, cnt) ==
    IF source \in DOMAIN srcs
    THEN [srcs EXCEPT ![source].doc_count = cnt]
    ELSE srcs

\* Mutant of Transaction: the statements run outside a transaction, so what
\* was written before the throw stays.
TransactionWithoutRollback(before, ran) == ran

\* db.transaction(fn)(): BEGIN, fn, then COMMIT, or ROLLBACK to the state
\* before when fn threw (the exception is thrown on).
Transaction(before, ran) ==
    IF ran.threw
    THEN [store |-> before.store, sources |-> before.sources, threw |-> TRUE,
          trace |-> <<before.store>>]
    ELSE ran

\* bulkUpsert(source, documents): the loop and the doc_count update run in
\* one transaction.
bulkUpsert(st, srcs, source, docs, ts) ==
    LET run == BulkLoop(st, docs, ts,
                        [created |-> 0, updated |-> 0, unchanged |-> 0], <<st>>)
    IN  Transaction(
            [store |-> st, sources |-> srcs],
            IF run.threw
            THEN [store |-> run.store, sources |-> srcs, threw |-> TRUE,
                  trace |-> run.trace]
            ELSE [store   |-> run.store,
                  sources |-> SetDocCount(srcs, source,
                                          CountBySource(run.store.documents, source)),
                  threw   |-> FALSE,
                  result  |-> run.result,
                  trace   |-> run.trace])

\* What a SELECT that finds no row gives (undefined, returned as null).
NoDocument == [id |-> NULL]

\* getDocument(docId): row ?? null
getDocument(docs, docId) == IF docId \in DOMAIN docs THEN docs[docId] ELSE NoDocument

\* Mutant of deleteDocument: the row (and its index entry) is left in place.
deleteDocumentKeepsRow(st, docId) ==
    [store |-> st, deleted |-> docId \in DOMAIN st.documents]

\* deleteDocument(docId): [store, deleted]
deleteDocument(st, docId) ==
    IF docId \in DOMAIN st.documents
    THEN [store |-> SqlDeleteDocument(st, docId), deleted |-> TRUE]
    ELSE [store |-> st, deleted |-> FALSE]

\* upsertSource(id, name, baseUrl): INSERT ... ON CONFLICT(id) DO UPDATE
upsertSource(srcs, id, name, baseUrl) ==
    IF id \in DOMAIN srcs
    THEN [srcs EXCEPT ![id].name = name, ![id].base_url = baseUrl]
    ELSE Put(srcs, id, [name |-> name, base_url |-> baseUrl, doc_count |-> 0,
                        last_synced |-> NULL, config |-> NULL])

\* One stmt.run of upsertErrorCodes on [error_codes, ec_seq].
ErrorCodeRun(ecs, sourceId, ec) ==
    LET key == <<sourceId, ec.code>>
    IN  IF key \in DOMAIN ecs.error_codes
        THEN [ecs EXCEPT !.error_codes[key] =
                  [@ EXCEPT !.message     = Coalesce(ec, "message", NULL),
                            !.description = Coalesce(ec, "description", NULL),
                            !.doc_id      = Coalesce(ec, "doc_id", NULL)]]
        ELSE [error_codes |-> Put(ecs.error_codes, key,
                                  [id          |-> ecs.ec_seq + 1,
                                   source_id   |-> sourceId,
                                   code        |-> ec.code,
                                   message     |-> Coalesce(ec, "message", NULL),
                                   description |-> Coalesce(ec, "description", NULL),
                                   doc_id      |-> Coalesce(ec, "doc_id", NULL)]),
              ec_seq      |-> ecs.ec_seq + 1]

\* upsertErrorCodes(sourceId, codes)
RECURSIVE upsertErrorCodes(_, _, _)
upsertErrorCodes(ecs, sourceId, codes) ==
    IF codes = <<>> THEN ecs
    ELSE upsertErrorCodes(ErrorCodeRun(ecs, sourceId, Head(codes)), sourceId, Tail(codes))

----------------------------------------------------------------------------
\* History: the hash each row held before its most recent rewrite, read
\* off the successive tables a request leaves (not off prev_content_hash).

HeldStep(h, before, after) ==
    [i \in DOMAIN after |->
        IF i \notin DOMAIN before THEN NULL
        ELSE IF after[i] # before[i] THEN before[i].content_hash
        ELSE h[i]]

Issued(docs) == {<<docs[i].source_id, docs[i].path, docs[i].id>> : i \in DOMAIN docs}

RECURSIVE HeldAlong(_, _)
HeldAlong(h, trace) ==
    IF Len(trace) < 2 THEN h
    ELSE HeldAlong(HeldStep(h, trace[1].documents, trace[2].documents), Tail(trace))

----------------------------------------------------------------------------
\* Requests

Sources == {"wecom", "feishu"}

PathA  == <<"message">>
PathAB == <<"", "message", "send">>
Paths  == {PathA, PathAB}

T1 == <<"fasong", "de", "xiaoxi">>
T2 == <<"access_token">>
C1 == <<"diaoyong", ",", "jiekou">>
C2 == <<"40001">>

\* Three documents as a scraper posts them, without their path.
V1 == [title |-> T1, content |-> C1]
V2 == [title |-> T2, content |-> C1, api_path |-> "POST /cgi-bin/send",
       dev_mode |-> "internal", doc_type |-> "guide",
       source_url |-> "https://open.example/doc", metadata |-> <<<<"locale", "zh">>>>,
       last_updated |-> "2024-01-01",
       error_codes |-> <<[code |-> "40001", message |-> "invalid"]>>]
V3 == [title |-> T1, content |-> C2, doc_type |-> "bogus"]
Variants == {V1, V2, V3}

At(v, path) == v @@ [path |-> path]

Named(body) == body @@ [source_name |-> "Name of " \o body.source]

\* Bodies of POST /admin/upsert.
UpsertBodies ==
    {At(v, PathA) @@ [source |-> "wecom"] : v \in Variants}
    \cup { Named(At(V2, PathAB) @@ [source |-> "wecom"]),
           At(V3, PathAB) @@ [source |-> "wecom"],
           At(V1, PathA) @@ [source |-> "feishu"],
           Named(At(V3, PathA) @@ [source |-> "feishu"]),
           [source |-> "wecom", path |-> PathA, title |-> T1] }

NoPath    == [title |-> T2, content |-> C2]
NoContent == [path |-> PathAB, title |-> T1]
NoTitle   == [path |-> PathA, content |-> C2]

Bulk(s, docs) == [source |-> s, documents |-> docs]

\* Bodies of POST /admin/bulk-upsert.
BulkBodies ==
    { Bulk("wecom", <<At(V1, PathA), At(V2, PathAB)>>),
      Bulk("wecom", <<At(V1, PathA), At(V3, PathA)>>),
      Bulk("wecom", <<At(V3, PathA), At(V2, PathA), At(V3, PathAB)>>),
      Bulk("wecom", <<At(V2, PathAB), NoContent>>),
      Bulk("wecom", <<At(V1, PathAB), NoTitle>>),
      Named(Bulk("wecom", <<At(V1, PathA)>>)),
      Named(Bulk("wecom", <<At(V3, PathA), NoPath>>)),
      Bulk("feishu", <<At(V1, PathA), At(V2, PathAB)>>),
      Named(Bulk("feishu", <<>>)),
      Named(Bulk("feishu", <<At(V3, PathA)>>)),
      [source |-> "wecom", source_name |-> "Name of wecom"],
      [documents |-> <<At(V1, PathA)>>] }

DocIds ==
    { makeDocId("wecom", PathStr(PathA)), makeDocId("wecom", PathStr(PathAB)),
      makeDocId("feishu", PathStr(PathA)), "wecom_000000000000" }

----------------------------------------------------------------------------
\* Admin routes (api/src/routes/admin.ts)

DocKeys == {"path", "title", "content", "api_path", "dev_mode", "doc_type",
            "source_url", "metadata", "last_updated"}

\* The UpsertDocInput a route builds from a posted document.
UpsertDocInputOf(source, d) ==
    [source_id         |-> source,
     tokenized_title   |-> tokenize(Coalesce(d, "title", <<>>)),
     tokenized_content |-> tokenize(Coalesce(d, "content", <<>>))]
    @@ [k \in (DOMAIN d) \cap DocKeys |-> d[k]]

\* The rows a route hands to upsertErrorCodes for one posted document.
CodesOf(source, d, docId) ==
    IF Has(d, "error_codes")
    THEN [i \in DOMAIN d.error_codes |->
             d.error_codes[i] @@ [source_id |-> source, doc_id |-> docId]]
    ELSE <<>>

RECURSIVE AllCodes(_, _)
AllCodes(source, docs) ==
    IF docs = <<>> THEN <<>>
    ELSE CodesOf(source, Head(docs), makeDocId(source, PathStr(Head(docs).path)))
         \o AllCodes(source, Tail(docs))

\* What the server remembers of a request in resp: the route, the
\* Authorization header, the body or parameters, and the reply.
Served(op, auth, req, status, body) ==
    [op |-> op, auth |-> auth, req |-> req, at |-> clock, status |-> status,
     body |-> body]

ADMIN_TOKEN == "dev-token"

Bearer == "Bearer " \o ADMIN_TOKEN

\* Mutant of verifyAdmin: any header that is present is accepted.
verifyAdminPresent(auth) == auth # NULL /\ auth # ""

\* verifyAdmin: auth is request.headers.authorization, NULL when the request
\* carries no such header.
verifyAdmin(auth) == ~(auth = NULL \/ auth = "" \/ auth # Bearer)

\* reply.code(401).send({ error: 'Unauthorized' }), and the handler returns.
Unauthorized(op, auth, req) ==
    /\ resp' = Served(op, auth, req, 401, [error |-> "Unauthorized"])
    /\ UNCHANGED <<documents, documents_fts, sources, error_codes, ec_seq, held>>

\* One request is served: time passes and the histories follow.
Request ==
    /\ clock < MaxClock
    /\ clock' = clock + 1
    /\ issued' = issued \cup Issued(documents)

\* POST /admin/upsert
AdminUpsert(auth, body) ==
    /\ Request
    /\ UNCHANGED <<search_log, sync_log>>
    /\ IF ~verifyAdmin(auth) THEN Unauthorized("upsert", auth, body)
       ELSE
       IF ~Has(body, "source") \/ ~Has(body, "path") \/ ~Has(body, "title")
          \/ ~Has(body, "content")
       THEN /\ resp' = Served("upsert", auth, body, 400,
                   [error |-> "Missing required fields: source, path, title, content"])
            /\ UNCHANGED <<documents, documents_fts, sources, error_codes, ec_seq, held>>
       ELSE LET st     == Store(documents, documents_fts)
                result == upsertDocument(st, UpsertDocInputOf(body.source, body), now)
                codes  == CodesOf(body.source, body, result.doc_id)
                ecs    == upsertErrorCodes([error_codes |-> error_codes, ec_seq |-> ec_seq],
                                           body.source, codes)
            IN  /\ sources' = IF Has(body, "source_name")
                              THEN upsertSource(sources, body.source, body.source_name, NULL)
                              ELSE sources
                /\ documents' = result.store.documents
                /\ documents_fts' = result.store.fts
                /\ error_codes' = ecs.error_codes
                /\ ec_seq' = ecs.ec_seq
                /\ held' = HeldAlong(held, <<st, result.store>>)
                /\ resp' = Served("upsert", auth, body, 200,
                                  [doc_id |-> result.doc_id, action |-> result.action])

\* POST /admin/bulk-upsert
AdminBulkUpsert(auth, body) ==
    /\ Request
    /\ UNCHANGED <<search_log, sync_log>>
    /\ IF ~verifyAdmin(auth) THEN Unauthorized("bulk-upsert", auth, body)
       ELSE
       IF ~Has(body, "source") \/ ~Has(body, "documents")
       THEN /\ resp' = Served("bulk-upsert", auth, body, 400,
                   [error |-> "Missing required fields: source, documents"])
            /\ UNCHANGED <<documents, documents_fts, sources, error_codes, ec_seq, held>>
       ELSE LET st    == Store(documents, documents_fts)
                srcs  == IF Has(body, "source_name")
                         THEN upsertSource(sources, body.source, body.source_name, NULL)
                         ELSE sources
                docs  == [i \in DOMAIN body.documents |->
                             UpsertDocInputOf(body.source, body.documents[i])]
                bulk  == bulkUpsert(st, srcs, body.source, docs, now)
                ecs   == upsertErrorCodes([error_codes |-> error_codes, ec_seq |-> ec_seq],
                                          body.source, AllCodes(body.source, body.documents))
            IN  /\ documents' = bulk.store.documents
                /\ documents_fts' = bulk.store.fts
                /\ sources' = bulk.sources
                /\ held' = HeldAlong(held, bulk.trace)
                /\ IF bulk.threw
                   THEN /\ resp' = Served("bulk-upsert", auth, body, 500,
                                          [error |-> "Internal Server Error"])
                        /\ UNCHANGED <<error_codes, ec_seq>>
                   ELSE /\ error_codes' = ecs.error_codes
                        /\ ec_seq' = ecs.ec_seq
                        /\ resp' = Served("bulk-upsert", auth, body, 200, bulk.result)

\* DELETE /admin/doc/:docId
AdminDeleteDoc(auth, docId) ==
    /\ Request
    /\ UNCHANGED <<search_log, sync_log>>
    /\ IF ~verifyAdmin(auth) THEN Unauthorized("delete", auth, docId)
       ELSE
       LET st == Store(documents, documents_fts)
           r  == deleteDocument(st, docId)
       IN  /\ documents' = r.store.documents
           /\ documents_fts' = r.store.fts
           /\ held' = HeldAlong(held, <<st, r.store>>)
           /\ resp' = Served("delete", auth, docId, 200, [deleted |-> r.deleted])
           /\ UNCHANGED <<sources, error_codes, ec_seq>>

\* POST /admin/reindex
AdminReindex(auth) ==
    /\ Request
    /\ UNCHANGED <<search_log, sync_log>>
    /\ IF ~verifyAdmin(auth) THEN Unauthorized("reindex", auth, "")
       ELSE
       /\ documents_fts' = FtsRebuild(documents)
       /\ resp' = Served("reindex", auth, "", 200,
                         [reindexed |-> Cardinality(DOMAIN documents)])
       /\ UNCHANGED <<documents, sources, error_codes, ec_seq, held>>

\* TaobaoSource as its constructor leaves it.  expired tells whether
\* Date.now() - sessionInitAt exceeds SESSION_TTL_MS (sessionInitAt starts at
\* 0), refreshing whether sessionRefreshPromise is set; inits counts the calls
\* of initSession that refreshSession made and that have not settled, calls
\* holds the calls of fetchDocument of the run, expiries how often the
\* session has expired.
TaobaoSource ==
    [expired |-> TRUE, refreshing |-> FALSE, inits |-> 0, calls |-> {},
     expiries |-> 0]

\* OpenAPISource as its constructor leaves it: no spec is cached (<<>> is
\* null).  rendered is no field of the code: it holds the schema rendered
\* last and the lines it gave.
OpenAPISource == [cachedSpec |-> <<>>, rendered |-> <<>>]

\* WecomSource as its constructor leaves it.  slept and call are no fields
\* of the code: slept is the delay throttle awaited last, call the call of
\* fetchDocContent in progress or over (<<>>: none yet).
WecomSource == [requestCount |-> 0, slept |-> 0, call |-> <<>>]

\* The adapters as their constructors leave them.
Created == [taobao |-> TaobaoSource, openapi |-> OpenAPISource, wecom |-> WecomSource]

\* The scraper process before syncSource is called.
Idle ==
    [pc |-> "idle", source |-> NULL, runs |-> 0, total |-> 0, lastCount |-> 0,
     todo |-> <<>>, fetching |-> {}, waiting |-> 0, pending |-> <<>>,
     inflight |-> {}, processed |-> 0,
     result |-> [created |-> 0, updated |-> 0, unchanged |-> 0, deleted |-> 0,
                 errors |-> 0],
     cmd |-> NULL, left |-> <<>>, hadErrors |-> FALSE, exitCode |-> <<>>,
     failed |-> {}, posted |-> {}]

Init ==
    /\ documents = <<>>
    /\ documents_fts = {}
    /\ sources = <<>>
    /\ error_codes = <<>>
    /\ ec_seq = 0
    /\ clock = 0
    /\ resp = [op |-> "none", auth |-> NULL, req |-> "", at |-> 0, status |-> 0,
               body |-> ""]
    /\ held = <<>>
    /\ issued = {}
    /\ search_log = <<>>
    /\ sync_log = <<>>
    /\ sync = Idle
    /\ adapters = Created

\* The admin requests of a client that holds the token.
Next ==
    \/ \E body \in UpsertBodies : AdminUpsert(Bearer, body) /\ UNCHANGED <<sync, adapters>>
    \/ \E body \in BulkBodies : AdminBulkUpsert(Bearer, body) /\ UNCHANGED <<sync, adapters>>
    \/ \E docId \in DocIds : AdminDeleteDoc(Bearer, docId) /\ UNCHANGED <<sync, adapters>>
    \/ AdminReindex(Bearer) /\ UNCHANGED <<sync, adapters>>

Spec == Init /\ [][Next]_vars

----------------------------------------------------------------------------
\* What the checks below read

Rows == {documents[i] : i \in DOMAIN documents}

T(n) == "T" \o ToString(n)

IsUpsert(r) == r.op = "upsert" /\ r.status = 200

IsBulk(r) == r.op = "bulk-upsert"

\* The id of a posted document, for a document that carries a path.
PostedId(source, d) == makeDocId(source, PathStr(d.path))

----------------------------------------------------------------------------
\* C1: bulkUpsert is all-or-nothing.  A bulk-upsert request whose
\* bulkUpsert call fails on some document (the request is answered 500)
\* leaves documents, the FTS index and every doc_count as they were; one
\* that succeeds leaves every document of the batch in the table and
\* counts each of them once.  Every state a search or a read can observe
\* lies between two requests, so none holds part of a batch.
C1_BulkAllOrNothing ==
    [][ (IsBulk(resp') /\ resp'.at = clock) =>
          /\ resp'.status \in {200, 400, 500}
          /\ resp'.status # 200 =>
                /\ documents' = documents
                /\ documents_fts' = documents_fts
                /\ \A s \in DOMAIN sources :
                      s \in DOMAIN sources' /\ sources'[s].doc_count = sources[s].doc_count
                /\ \A s \in (DOMAIN sources') \ (DOMAIN sources) :
                      sources'[s].doc_count = 0
          /\ resp'.status = 200 =>
                /\ \A i \in DOMAIN resp'.req.documents :
                      PostedId(resp'.req.source, resp'.req.documents[i]) \in DOMAIN documents'
                /\ resp'.body.created + resp'.body.updated + resp'.body.unchanged
                      = Len(resp'.req.documents)
                /\ Cardinality(DOMAIN documents') = Cardinality(DOMAIN documents)
                                                     + resp'.body.created
      ]_vars

\* A batch of two whose second document fails after the first, a new
\* document, was written: the first is not in the table.
C1_Witness ==
    /\ IsBulk(resp) /\ resp.status = 500
    /\ Len(resp.req.documents) >= 2
    /\ Has(resp.req.documents[1], "path")
    /\ PostedId(resp.req.source, resp.req.documents[1]) \notin DOMAIN documents
    /\ documents # <<>>

----------------------------------------------------------------------------
\* C2: an upsert that repeats the source, path and content of the upsert
\* served just before it, which had created the document, is answered
\* `unchanged` and writes nothing: the documents table (synced_at and the
\* tokenized columns included) and the FTS index are as the first call
\* left them.
C2_RepeatedUpsertUnchanged ==
    [][ ( /\ IsUpsert(resp) /\ resp.body.action = "created"
          /\ IsUpsert(resp') /\ resp'.at = clock /\ resp'.at # resp.at
          /\ resp'.req.source = resp.req.source
          /\ resp'.req.path = resp.req.path
          /\ resp'.req.content = resp.req.content )
        => /\ resp'.body.action = "unchanged"
           /\ resp'.body.doc_id = resp.body.doc_id
           /\ documents' = documents
           /\ documents_fts' = documents_fts
      ]_vars

\* The upsert at tick resp.at was answered `unchanged` for a row that the
\* request one tick earlier created.
C2_Witness ==
    /\ IsUpsert(resp) /\ resp.body.action = "unchanged"
    /\ resp.at >= 1
    /\ resp.body.doc_id \in DOMAIN documents
    /\ documents[resp.body.doc_id].synced_at = T(resp.at - 1)
    /\ documents[resp.body.doc_id].prev_content_hash = NULL
    /\ documents[resp.body.doc_id].title # Raw(resp.req.title)

----------------------------------------------------------------------------
\* Every row's content_hash is the SHA-256 of its content and its
\* prev_content_hash is the hash the row held before its most recent
\* rewrite (NULL for a row never rewritten).
C3_HashesOfRows ==
    \A i \in DOMAIN documents :
        /\ documents[i].content_hash = sha256(documents[i].content)
        /\ documents[i].prev_content_hash = held[i]

\* C3: the two hashes of every row are as above in every state, and an
\* upsert of a content that differs from the stored one is answered
\* `updated` with the stored hash rolled into prev_content_hash.
C3_ContentHashAndPrev ==
    /\ C3_HashesOfRows
    /\ [][ /\ C3_HashesOfRows'
           /\ ( /\ IsUpsert(resp') /\ resp'.at = clock
                /\ resp'.body.doc_id \in DOMAIN documents
                /\ documents[resp'.body.doc_id].content # Raw(resp'.req.content) )
              => /\ resp'.body.action = "updated"
                 /\ documents'[resp'.body.doc_id].content = Raw(resp'.req.content)
                 /\ documents'[resp'.body.doc_id].prev_content_hash
                       = documents[resp'.body.doc_id].content_hash
                 /\ documents'[resp'.body.doc_id].prev_content_hash
                       # documents'[resp'.body.doc_id].content_hash
         ]_vars

\* A row rewritten twice: its prev_content_hash is the hash of the content
\* it holds now two versions back, so the hash of the version between.
C3_Witness ==
    \E i \in DOMAIN documents :
        /\ documents[i].prev_content_hash # NULL
        /\ documents[i].prev_content_hash = sha256(Raw(C2))
        /\ documents[i].content = Raw(C1)
        /\ documents[i].source_id = "wecom"
        /\ IsBulk(resp) /\ resp.status = 200 /\ resp.body.updated = 2

----------------------------------------------------------------------------
\* C4: after any sequence of upserts, bulk upserts, deletes and reindex
\* requests the FTS index holds exactly one entry per documents row, under
\* the row's rowid, and the entry's title and content are the row's
\* tokenized_title and tokenized_content.
C4_FtsMirrorsDocuments ==
    documents_fts =
        {FtsEntry(r.rowid, r.tokenized_title, r.tokenized_content) : r \in Rows}

----------------------------------------------------------------------------
OptionalKeys == {"api_path", "dev_mode", "doc_type", "source_url", "last_updated"}

\* The number of non-empty segments of a path, at least 1.
Depth(path) ==
    LET n == Cardinality({i \in DOMAIN path : path[i] # ""})
    IN  IF n >= 1 THEN n ELSE 1

\* row carries the fields given in the upsert input x and the computed ones.
RoundTrip(x, row, docId) ==
    /\ row # NoDocument
    /\ row.title = Raw(x.title)
    /\ row.content = Raw(x.content)
    /\ \A k \in OptionalKeys \cap DOMAIN x : row[k] = x[k]
    /\ Has(x, "metadata") => row.metadata = JSONstringify(x.metadata)
    /\ row.id = docId
    /\ row.source_id = x.source
    /\ row.path = PathStr(x.path)
    /\ row.content_hash = sha256(Raw(x.content))
    /\ row.path_depth = Depth(x.path)

\* C5 as stated: for every upsert input x and every prior state,
\* getDocument(upsertDocument(x).doc_id) carries the fields of x and the
\* computed id, content_hash, path_depth and synced_at.
C5_RoundTripAlways ==
    IsUpsert(resp) =>
        RoundTrip(resp.req, getDocument(documents, resp.body.doc_id), resp.body.doc_id)

\* C5 as amended: the same for every upsert that is answered `created` or
\* `updated`, with synced_at the time of that upsert; an optional field
\* that x omits is stored as NULL, doc_type as api_reference and
\* last_updated as the time of the upsert.  An upsert answered
\* `unchanged` returns the stored row, which has the content of x.
C5_RoundTripWhenWritten ==
    IsUpsert(resp) =>
        LET x   == resp.req
            row == getDocument(documents, resp.body.doc_id)
        IN  /\ row # NoDocument
            /\ row.content = Raw(x.content)
            /\ resp.body.action \in {"created", "updated"} =>
                  /\ RoundTrip(x, row, resp.body.doc_id)
                  /\ row.synced_at = T(resp.at)
                  /\ \A k \in {"api_path", "dev_mode", "source_url", "metadata"} \ DOMAIN x :
                        row[k] = NULL
                  /\ ~Has(x, "doc_type") => row.doc_type = "api_reference"
                  /\ ~Has(x, "last_updated") => row.last_updated = T(resp.at)

\* An update that carried every optional field over a row that had none.
C5_Witness ==
    /\ IsUpsert(resp) /\ resp.body.action = "updated"
    /\ Has(resp.req, "metadata") /\ Has(resp.req, "dev_mode")
    /\ documents[resp.body.doc_id].dev_mode = "internal"
    /\ documents[resp.body.doc_id].prev_content_hash = sha256(Raw(C2))

----------------------------------------------------------------------------
\* The rows a search can return: the error-code and API-path branches and
\* the LIKE fallback select rows of documents; the keyword branch selects
\* the rows of documents that an FTS entry joins on rowid.
FtsJoin(docs, fts) == {i \in DOMAIN docs : \E f \in fts : f.rowid = docs[i].rowid}

SearchCandidates(docs, fts) == (DOMAIN docs) \cup FtsJoin(docs, fts)

\* C6: after deleteDocument(id) of an existing document getDocument(id)
\* returns nothing and no search can return the document; an upsert of a
\* (source_id, path) that has no row is answered `created`, under the id
\* every earlier row of that (source_id, path) had, with a NULL
\* prev_content_hash.
C6_DeleteThenRecreate ==
    [][ /\ ( /\ resp'.op = "delete" /\ resp'.at = clock
             /\ resp'.req \in DOMAIN documents )
           => /\ resp'.body.deleted
              /\ getDocument(documents', resp'.req) = NoDocument
              /\ resp'.req \notin SearchCandidates(documents', documents_fts')
              /\ \A i \in DOMAIN documents : i # resp'.req => i \in DOMAIN documents'
        /\ ( /\ IsUpsert(resp') /\ resp'.at = clock
             /\ ~ \E r \in Rows : /\ r.source_id = resp'.req.source
                                  /\ r.path = PathStr(resp'.req.path) )
           => /\ resp'.body.action = "created"
              /\ getDocument(documents', resp'.body.doc_id).prev_content_hash = NULL
              /\ \A t \in issued' :
                    (t[1] = resp'.req.source /\ t[2] = PathStr(resp'.req.path))
                       => t[3] = resp'.body.doc_id
      ]_vars

\* The third request, an upsert, created a document whose (source_id, path)
\* had a row before under the same id: that row had been deleted.
C6_Witness ==
    /\ IsUpsert(resp) /\ resp.body.action = "created"
    /\ resp.at = 2
    /\ \E t \in issued : /\ t[1] = resp.req.source
                         /\ t[2] = PathStr(resp.req.path)
                         /\ t[3] = resp.body.doc_id
    /\ documents[resp.body.doc_id].prev_content_hash = NULL

----------------------------------------------------------------------------
\* A payload without source or documents, or with a document that lacks
\* path, title or content.
Inconsistent(body) ==
    \/ ~Has(body, "source")
    \/ ~Has(body, "documents")
    \/ \E i \in DOMAIN body.documents :
          \E k \in {"path", "title", "content"} : ~Has(body.documents[i], k)

\* C7: a bulk-upsert whose payload is inconsistent is answered 400 and
\* leaves documents, sources and error_codes as they were.
C7_InconsistentPayloadRejected ==
    [][ (IsBulk(resp') /\ resp'.at = clock /\ Inconsistent(resp'.req))
        => /\ resp'.status = 400
           /\ UNCHANGED <<documents, sources, error_codes>>
      ]_vars

----------------------------------------------------------------------------
\* C8: after a successful bulk-upsert for source S a sources row S exists.
C8_SourceRowAfterBulkUpsert ==
    (IsBulk(resp) /\ resp.status = 200) => resp.req.source \in DOMAIN sources

----------------------------------------------------------------------------
----------------------------------------------------------------------------
DocTypes == {"api_reference", "guide", "error_code", "event", "card_template",
             "changelog"}

\* C10: in every state the doc_type of every stored document, which is
\* what getDocument returns, is one of the six enumerated values.
C10_DocTypeEnumerated ==
    \A r \in Rows : r.doc_type \in DocTypes

----------------------------------------------------------------------------
\* Admin requests with and without the token

\* Number of requests of a behaviour of AuthSpec.
MaxAuthClock == 2

\* Values of the Authorization header; NULL is a request without one.
Authorizations ==
    {NULL, "", Bearer, "Bearer wrong-token", "bearer " \o ADMIN_TOKEN, ADMIN_TOKEN}

AuthUpsertBodies ==
    { Named(At(V2, PathA) @@ [source |-> "wecom"]),
      At(V3, PathA) @@ [source |-> "wecom"] }

AuthBulkBodies ==
    { Named(Bulk("feishu", <<At(V1, PathA), At(V2, PathAB)>>)),
      Bulk("wecom", <<At(V1, PathA)>>) }

AuthDocIds == {makeDocId("wecom", PathStr(PathA))}

\* One request of AuthSpec: any client, with or without the token.
AuthRequest == clock < MaxAuthClock /\ UNCHANGED <<sync, adapters>>

AuthNext ==
    \/ \E auth \in Authorizations, body \in AuthUpsertBodies :
           AuthRequest /\ AdminUpsert(auth, body)
    \/ \E auth \in Authorizations, body \in AuthBulkBodies :
           AuthRequest /\ AdminBulkUpsert(auth, body)
    \/ \E auth \in Authorizations, docId \in AuthDocIds :
           AuthRequest /\ AdminDeleteDoc(auth, docId)
    \/ \E auth \in Authorizations : AuthRequest /\ AdminReindex(auth)

AuthSpec == Init /\ [][AuthNext]_vars

\* C11: every admin request (upsert, bulk-upsert, delete doc, reindex) whose
\* Authorization header is not exactly "Bearer <ADMIN_TOKEN>", or that has
\* none, is answered 401 with the Unauthorized body, and documents, the FTS
\* index, sources and error_codes are after it what they were before.
C11_UnauthorizedIsRejected ==
    [][ resp'.auth # Bearer =>
          /\ resp'.status = 401
          /\ resp'.body = [error |-> "Unauthorized"]
          /\ UNCHANGED <<documents, documents_fts, sources, error_codes, ec_seq>>
      ]_vars

\* A request to delete a stored document came with a wrong token and was
\* answered 401.
C11_Witness ==
    /\ resp.op = "delete"
    /\ resp.auth = "Bearer wrong-token"
    /\ resp.status = 401
    /\ resp.req \in DOMAIN documents

----------------------------------------------------------------------------
\* Strings as the search engine reads them
\*
\* A piece is made of atoms: maximal runs of letters and digits, and single
\* characters that are neither.  Substring tests (String.includes, SQL LIKE)
\* and the FTS5 tokenizer are modelled on atoms: a needle occurs in a text
\* when its atoms are consecutive atoms of the text.

Parts(p) ==
    CASE p = "access_token"          -> <<"access", "_", "token">>
      [] p = "Access_Token"          -> <<"Access", "_", "Token">>
      [] p = "contact:user_id"       -> <<"contact", ":", "user", "_", "id">>
      [] p = "contact:user"          -> <<"contact", ":", "user">>
      [] p = "/cgi-bin/message/send" ->
             <<"/", "cgi", "-", "bin", "/", "message", "/", "send">>
      [] p = "/cgi-bin/message"      -> <<"/", "cgi", "-", "bin", "/", "message">>
      [] p = "/cgi-bin/send"         -> <<"/", "cgi", "-", "bin", "/", "send">>
      [] p = "yingyongxiaoxi"        -> <<"yingyong", "xiaoxi">>
      [] OTHER                       -> <<p>>

\* The atoms that are one character which is no letter and no digit.
Separators == {",", ".", " ", "-", ":", "_", "/"}

RECURSIVE Atoms(_)
Atoms(text) == IF text = <<>> THEN <<>> ELSE Parts(Head(text)) \o Atoms(Tail(text))

\* String.prototype.toLowerCase, and the case folding of LIKE and of FTS5.
toLowerCase(a) ==
    CASE a = "Access"  -> "access"
      [] a = "Token"   -> "token"
      [] a = "ERRCODE" -> "errcode"
      [] a = "OR"      -> "or"
      [] a = "POST"    -> "post"
      [] OTHER         -> a

\* String.prototype.trim on a text: blank pieces at both ends go.
RECURSIVE TrimStart(_)
TrimStart(text) ==
    IF text # <<>> /\ Head(text) = " " THEN TrimStart(Tail(text)) ELSE text

RECURSIVE TrimEnd(_)
TrimEnd(text) ==
    IF text # <<>> /\ text[Len(text)] = " "
    THEN TrimEnd(SubSeq(text, 1, Len(text) - 1)) ELSE text

Trim(text) == TrimEnd(TrimStart(text))

\* haystack.includes(needle), both given by their atoms.
Includes(hay, needle) ==
    \E i \in 1..(Len(hay) - Len(needle) + 1) :
        \A k \in 1..Len(needle) : hay[i + k - 1] = needle[k]

\* column LIKE '%needle%': ASCII case is folded, and an underscore of the
\* needle stands for any one character (the needle is not escaped).
Like(hay, needle) ==
    \E i \in 1..(Len(hay) - Len(needle) + 1) :
        \A k \in 1..Len(needle) :
            \/ toLowerCase(hay[i + k - 1]) = toLowerCase(needle[k])
            \/ needle[k] = "_" /\ hay[i + k - 1] \in Separators

\* The texts of the model, as posted; a stored column holds the string of
\* one of them, or of its tokenized form.
TS  == <<"fasong", "xiaoxi">>
TT  == <<"huoqu", " ", "access_token">>
CS1 == <<"diaoyong", "jiekou", "fasong", "de", "xiaoxi", ",", "cuowuma", "60011">>
CS2 == <<"fasong", "xiaoxi", ".", "60011">>
CT  == <<"huoqu", "access_token", ",", "contact:user", "-", "id">>
CF  == <<"fasong", "xiaoxi", " ", "contact:user_id">>

Texts ==
    {T1, T2, C1, C2, TS, TT, CS1, CS2, CT, CF, <<>>, <<"/cgi-bin/message/send">>,
     <<"POST", " ", "/cgi-bin/send">>}

RECURSIVE Spaced(_)
Spaced(tokens) ==
    IF Len(tokens) <= 1 THEN tokens
    ELSE <<Head(tokens), " ">> \o Spaced(Tail(tokens))

\* The pieces of a stored string.
PiecesOf(str) ==
    CHOOSE u \in Texts \cup {Spaced(Segments(t, FALSE)) : t \in Texts} : Raw(u) = str

AtomsOf(str) == Atoms(PiecesOf(str))

----------------------------------------------------------------------------
\* The FTS5 index as a query reads it (schema.sql: documents_fts, with the
\* default unicode61 tokenizer)

RECURSIVE Unicode61(_, _)
\* unicode61 folds case and cuts a column at every character that is no
\* letter and no digit; cur is the token being read.
Unicode61(atoms, cur) ==
    LET done == IF cur = "" THEN <<>> ELSE <<cur>>
    IN  IF atoms = <<>> THEN done
        ELSE IF Head(atoms) \in Separators
             THEN done \o Unicode61(Tail(atoms), "")
             ELSE Unicode61(Tail(atoms), cur \o toLowerCase(Head(atoms)))

Fts5Operators == {"AND", "OR", "NOT"}

\* A bareword of the FTS5 query syntax: letters, digits, underscores and
\* non-ASCII characters only.
Bareword(t) == \A i \in DOMAIN Parts(t) : Parts(t)[i] \notin Separators \ {"_"}

\* The MATCH expression is tokens.join(' ').  FTS5 raises an error for a
\* token that is no bareword (a syntax error, or "no such column" for a
\* colon) and for an operator that lacks an operand.
Fts5Rejects(tokens) ==
    \/ \E i \in DOMAIN tokens : ~Bareword(tokens[i])
    \/ \E i \in DOMAIN tokens :
           /\ tokens[i] \in Fts5Operators
           /\ \/ i = 1
              \/ i = Len(tokens)
              \/ tokens[i + 1] \in Fts5Operators

RECURSIVE SplitOn(_, _)
SplitOn(tokens, op) ==
    IF \A i \in DOMAIN tokens : tokens[i] # op THEN <<tokens>>
    ELSE LET i == CHOOSE i \in DOMAIN tokens :
                      tokens[i] = op /\ \A j \in 1..(i - 1) : tokens[j] # op
         IN  <<SubSeq(tokens, 1, i - 1)>> \o SplitOn(SubSeq(tokens, i + 1, Len(tokens)), op)

\* The columns of the index entries of one rowid, as unicode61 tokens.
Fts5Columns(fts, rowid) ==
    UNION {{Unicode61(AtomsOf(e.title), ""), Unicode61(AtomsOf(e.content), "")} :
             e \in {x \in fts : x.rowid = rowid}}

\* A bareword is a phrase: its unicode61 tokens, next to each other in one
\* column.
Fts5Phrase(fts, rowid, t) ==
    \E col \in Fts5Columns(fts, rowid) : Includes(col, Unicode61(Parts(t), ""))

\* An accepted expression: barewords side by side are a conjunction, which
\* binds tighter than NOT, then AND, then OR.
Fts5Match(fts, rowid, tokens) ==
    LET Leaf(q)    == \A i \in DOMAIN q : Fts5Phrase(fts, rowid, q[i])
        NotPart(q) == LET ps == SplitOn(q, "NOT")
                      IN  Leaf(ps[1]) /\ \A k \in 2..Len(ps) : ~Leaf(ps[k])
        AndPart(q) == LET ps == SplitOn(q, "AND")
                      IN  \A k \in DOMAIN ps : NotPart(ps[k])
        ors        == SplitOn(tokens, "OR")
    IN  \E k \in DOMAIN ors : AndPart(ors[k])

\* bm25(documents_fts): negative, and further from zero the more often the
\* phrases of the query occur.  Here one unit for each phrase and column in
\* which it occurs (a stand-in for the real-valued rank).
bm25(fts, rowid, tokens) ==
    0 - Cardinality({<<i, col>> \in (DOMAIN tokens) \X Fts5Columns(fts, rowid) :
                        /\ tokens[i] \notin Fts5Operators
                        /\ Includes(col, Unicode61(Parts(tokens[i]), ""))})

----------------------------------------------------------------------------
\* Search engine (api/src/services/search-engine.ts)
\*
\* A score is counted in sixtieths of a point, so that every term of
\* computeScore is a whole number; a result carries its score as the code
\* rounds it, in hundredths of a point.

\* A JavaScript number that may be NaN.
Num(n) == [nan |-> FALSE, n |-> n]

NaN == [nan |-> TRUE, n |-> 0]

MathMax(a, b) == IF a.nan \/ b.nan THEN NaN ELSE IF a.n >= b.n THEN a ELSE b

MathMin(a, b) == IF a.nan \/ b.nan THEN NaN ELSE IF a.n <= b.n THEN a ELSE b

DecimalDigits == <<"0", "1", "2", "3", "4", "5", "6", "7", "8", "9">>

IsDigit(c) == \E i \in DOMAIN DecimalDigits : DecimalDigits[i] = c

RECURSIVE ReadDigits(_, _)
ReadDigits(chars, acc) ==
    IF chars = <<>> \/ ~IsDigit(Head(chars)) THEN acc
    ELSE ReadDigits(Tail(chars),
                    10 * acc + (CHOOSE i \in DOMAIN DecimalDigits :
                                    DecimalDigits[i] = Head(chars)) - 1)

\* parseInt(str, 10) of a string given by its characters: blanks, a sign,
\* then the digits up to the first character that is none; NaN without one.
parseInt(chars) ==
    LET str    == TrimStart(chars)
        signed == str # <<>> /\ Head(str) \in {"-", "+"}
        digits == IF signed THEN Tail(str) ELSE str
    IN  IF digits = <<>> \/ ~IsDigit(Head(digits)) THEN NaN
        ELSE IF signed /\ Head(str) = "-" THEN Num(0 - ReadDigits(digits, 0))
        ELSE Num(ReadDigits(digits, 0))

\* The pieces that are runs of digits.
IsDigits(p) == p \in {"40001", "60011", "99999"}

\* What is left of a query after its leading errcode and the blanks that
\* follow it: replace(/^errcode\s*/i, '').trim()
CodeStr(trimmed) ==
    IF trimmed # <<>> /\ toLowerCase(Head(trimmed)) = "errcode"
    THEN Trim(Tail(trimmed)) ELSE trimmed

detectQueryType(trimmed) ==
    LET atoms == Atoms(trimmed)
    IN  IF Len(CodeStr(trimmed)) = 1 /\ IsDigits(CodeStr(trimmed)[1])
        THEN "error_code"
        ELSE IF \/ atoms # <<>> /\ Head(atoms) = "/"
                \/ Includes(atoms, <<"/", "cgi", "-", "bin", "/">>)
                \/ Includes(atoms, <<"/", "open", "-", "apis", "/">>)
             THEN "api_path"
             ELSE "keyword"

RECURSIVE Unique(_)
\* The first occurrence of every element, in order.
Unique(seq) ==
    IF seq = <<>> THEN <<>>
    ELSE LET front == SubSeq(seq, 1, Len(seq) - 1)
             last  == seq[Len(seq)]
         IN  IF \E i \in DOMAIN front : front[i] = last
             THEN Unique(front) ELSE Unique(front) \o <<last>>

\* tokenizeForSearch, as the list of tokens: the code joins them with
\* blanks and search() splits the string at the blanks again.
tokenizeForSearch(query) == Unique(Segments(query, TRUE))

Lowered(atoms) == [i \in DOMAIN atoms |-> toLowerCase(atoms[i])]

\* (new Date(now) - new Date(last_updated)) in days.  The stamps of the
\* model's clock are of today; a string that is no date gives NaN.
DaysSince(last_updated) ==
    CASE last_updated = "2024-01-01" -> Num(400)
      [] last_updated = "now-60d"    -> Num(60)
      [] last_updated \in {"T" \o ToString(n) : n \in 0..(MaxClock + 1)} -> Num(0)
      [] OTHER -> NaN

\* Mutant of computeScore: the title bonus is given for any token of the
\* query found in the title, not for the whole query.
computeScoreAnyToken(doc, originalQuery, tokens, ftsRank) ==
    LET titleLower == Lowered(AtomsOf(doc.title))
        queryLower == Lowered(Atoms(Trim(originalQuery)))
        matched    == Cardinality({i \in DOMAIN tokens :
                          Includes(titleLower, Lowered(Parts(tokens[i])))})
        diffDays   == DaysSince(doc.last_updated)
    IN  (IF queryLower # <<>> /\ matched > 0 THEN 20 * 60 ELSE 0)
        + (IF tokens # <<>> THEN (5 * 60 * matched) \div Len(tokens) ELSE 0)
        + (IF ftsRank # <<>>
           THEN 60 * (IF ftsRank[1] < 0 THEN 0 - ftsRank[1] ELSE ftsRank[1]) ELSE 0)
        + (IF doc.doc_type = "api_reference" THEN 3 * 60 ELSE 0)
        + (IF doc.last_updated \in {NULL, ""} \/ diffDays.nan THEN 0
           ELSE IF diffDays.n <= 30 THEN 3 * 60
           ELSE IF diffDays.n <= 90 THEN 60 ELSE 0)
        - doc.path_depth * 30

\* computeScore; ftsRank is <<>> for undefined, else <<rank>>.
computeScore(doc, originalQuery, tokens, ftsRank) ==
    LET titleLower == Lowered(AtomsOf(doc.title))
        queryLower == Lowered(Atoms(Trim(originalQuery)))
        matched    == Cardinality({i \in DOMAIN tokens :
                          Includes(titleLower, Lowered(Parts(tokens[i])))})
        diffDays   == DaysSince(doc.last_updated)
    IN  (IF queryLower # <<>> /\ Includes(titleLower, queryLower) THEN 20 * 60 ELSE 0)
        + (IF tokens # <<>> THEN (5 * 60 * matched) \div Len(tokens) ELSE 0)
        + (IF ftsRank # <<>>
           THEN 60 * (IF ftsRank[1] < 0 THEN 0 - ftsRank[1] ELSE ftsRank[1]) ELSE 0)
        + (IF doc.doc_type = "api_reference" THEN 3 * 60 ELSE 0)
        + (IF doc.last_updated \in {NULL, ""} \/ diffDays.nan THEN 0
           ELSE IF diffDays.n <= 30 THEN 3 * 60
           ELSE IF diffDays.n <= 90 THEN 60 ELSE 0)
        - doc.path_depth * 30

\* Math.round(score * 100) / 100, in hundredths.
Rounded(score) == (10 * score + 3) \div 6

NoErrorCode == [code |-> NULL]

\* findErrorCode: the first row with the code, in the order of the index on
\* code (that of the row ids); the source is not asked for.
findErrorCode(ecs, code) ==
    LET hits == {k \in DOMAIN ecs : ecs[k].code = code}
    IN  IF hits = {} THEN NoErrorCode
        ELSE ecs[CHOOSE k \in hits : \A j \in hits : ecs[k].id <= ecs[j].id]

RECURSIVE ByRowid(_)
\* The rows of a SELECT without ORDER BY, as SQLite scans them.
ByRowid(rows) ==
    IF rows = {} THEN <<>>
    ELSE LET r == CHOOSE r \in rows : \A x \in rows : r.rowid <= x.rowid
         IN  <<r>> \o ByRowid(rows \ {r})

\* LIMIT n
Limit(rows, n) == SubSeq(rows, 1, IF n < Len(rows) THEN n ELSE Len(rows))

\* The cap of the keyword queries: LIMIT 200.
CandidateLimit == 200

\* The optional `AND source_id = ?` and `AND dev_mode = ?`
Filtered(row, source, mode) ==
    /\ source = NULL \/ row.source_id = source
    /\ mode = NULL \/ row.dev_mode = mode

Scored(doc, score) == [doc |-> doc, score |-> score]

RECURSIVE SortByScore(_)
\* scoredRows.sort((a, b) => b.score - a.score): stable, highest first.
SortByScore(rows) ==
    IF rows = <<>> THEN <<>>
    ELSE LET front == SortByScore(SubSeq(rows, 1, Len(rows) - 1))
             last  == rows[Len(rows)]
             k     == Cardinality({i \in DOMAIN front : front[i].score >= last.score})
         IN  SubSeq(front, 1, k) \o <<last>> \o SubSeq(front, k + 1, Len(front))

DedupKey(doc) == <<doc.title, IF doc.api_path = NULL THEN "" ELSE doc.api_path>>

RECURSIVE Dedup(_, _)
\* The loop over the sorted rows: the first row of a key is kept, and the
\* dev_mode of every later row of the key is noted with it.
Dedup(rows, kept) ==
    IF rows = <<>> THEN kept
    ELSE LET sr  == Head(rows)
             hit == {i \in DOMAIN kept : DedupKey(kept[i].sr.doc) = DedupKey(sr.doc)}
         IN  IF hit # {}
             THEN LET i == CHOOSE i \in hit : TRUE
                  IN  Dedup(Tail(rows),
                            IF sr.doc.dev_mode \notin {NULL, ""}
                            THEN [kept EXCEPT ![i].modes = @ \o <<sr.doc.dev_mode>>]
                            ELSE kept)
             ELSE Dedup(Tail(rows), kept \o <<[sr |-> sr, modes |-> <<>>]>>)

\* Mutant of OtherModes: the row's own mode is not taken out.
OtherModesWithOwn(entry) == Unique(entry.modes)

\* other_modes of a kept row: the noted modes, each once, without the row's
\* own; <<>> stands for undefined (the code never gives an empty list).
OtherModes(entry) ==
    LET unique == Unique(entry.modes)
        IsOther(m) == m # entry.sr.doc.dev_mode
    IN  SelectSeq(unique, IsOther)

\* A SearchResult, without its snippet (no statement below reads it).
SearchResult(sr, otherModes) ==
    [id           |-> sr.doc.id,
     source_id    |-> sr.doc.source_id,
     title        |-> sr.doc.title,
     path         |-> sr.doc.path,
     api_path     |-> sr.doc.api_path,
     dev_mode     |-> sr.doc.dev_mode,
     other_modes  |-> otherModes,
     doc_type     |-> sr.doc.doc_type,
     source_url   |-> sr.doc.source_url,
     last_updated |-> sr.doc.last_updated,
     score        |-> Rounded(sr.score)]

\* What a branch of search() collects into scoredRows: threw when a
\* statement outside the try block raises an error.
Collected(rows) == [threw |-> FALSE, rows |-> rows]

\* SQLite refuses a LIMIT that is no integer; better-sqlite3 binds NaN as
\* NULL, so the statement raises "datatype mismatch".
LimitRefused == [threw |-> TRUE, rows |-> <<>>]

Fifty(rows) == [i \in DOMAIN rows |-> Scored(rows[i], 50 * 60)]

ErrorCodeBranch(docs, ecs, trimmed, source, mode, limit) ==
    LET code   == CodeStr(trimmed)[1]
        ec     == findErrorCode(ecs, code)
        rows   == {docs[i] : i \in DOMAIN docs}
        linked == IF ec = NoErrorCode \/ ec.doc_id \in {NULL, ""} THEN {}
                  ELSE {r \in rows : r.id = ec.doc_id}
    IN  IF ec = NoErrorCode THEN Collected(<<>>)
        ELSE IF linked # {} THEN Collected(Fifty(ByRowid(linked)))
        ELSE IF limit.nan THEN LimitRefused
        ELSE Collected(Fifty(Limit(
                 ByRowid({r \in rows : /\ Like(AtomsOf(r.content), Parts(code))
                                       /\ Filtered(r, source, mode)}),
                 limit.n)))

ApiPathBranch(docs, trimmed, source, mode, limit) ==
    IF limit.nan THEN LimitRefused
    ELSE Collected(Fifty(Limit(
             ByRowid({r \in {docs[i] : i \in DOMAIN docs} :
                        /\ r.api_path # NULL
                        /\ Like(AtomsOf(r.api_path), Atoms(trimmed))
                        /\ Filtered(r, source, mode)}),
             limit.n)))

\* The FTS5 query of the keyword branch.
FtsQuery(docs, fts, trimmed, tokens, source, mode) ==
    LET rows == Limit(ByRowid({r \in {docs[i] : i \in DOMAIN docs} :
                                 /\ Fts5Match(fts, r.rowid, tokens)
                                 /\ Filtered(r, source, mode)}),
                      CandidateLimit)
    IN  [i \in DOMAIN rows |->
            Scored(rows[i], computeScore(rows[i], trimmed, tokens,
                                         <<bm25(fts, rows[i].rowid, tokens)>>))]

\* The LIKE query of the catch block.
LikeQuery(docs, trimmed, tokens, source, mode) ==
    LET rows == Limit(ByRowid({r \in {docs[i] : i \in DOMAIN docs} :
                   /\ \A i \in DOMAIN tokens :
                          \/ Like(AtomsOf(r.content), Parts(tokens[i]))
                          \/ Like(AtomsOf(r.title), Parts(tokens[i]))
                   /\ Filtered(r, source, mode)}),
                 CandidateLimit)
    IN  [i \in DOMAIN rows |->
            Scored(rows[i], computeScore(rows[i], trimmed, tokens, <<>>))]

KeywordBranch(docs, fts, trimmed, tokens, source, mode) ==
    IF Fts5Rejects(tokens)
    THEN Collected(LikeQuery(docs, trimmed, tokens, source, mode))
    ELSE Collected(FtsQuery(docs, fts, trimmed, tokens, source, mode))

\* The row logSearch inserts, but for its id.
LogRow(trimmed, source, resultCount, topScore, ts) ==
    [query |-> Raw(trimmed), source |-> source, result_count |-> resultCount,
     top_score |-> topScore, took_ms |-> 0, created_at |-> ts]

\* scoredRows.slice(0, limit): NaN is taken as 0.
Slice(rows, limit) == IF limit.nan THEN <<>> ELSE Limit(rows, limit.n)

\* What search returns when it does not throw, and the rows it logs.
Returns(rs, total, log) ==
    [threw |-> FALSE, results |-> rs, totalCount |-> total, log |-> log]

\* The deduplication pass, skipped when a mode is given.
Kept(sorted, mode) ==
    IF mode = NULL THEN Dedup(sorted, <<>>)
    ELSE [i \in DOMAIN sorted |-> [sr |-> sorted[i], modes |-> <<>>]]

\* scoredRows.map(...): the rows as they are returned.
Results(sliced) ==
    [i \in DOMAIN sliced |-> SearchResult(sliced[i].sr, OtherModes(sliced[i]))]

\* logSearch(...) and the return statement: totalCount and result_count are
\* the number of rows before slice.
Logged(kept, results, trimmed, source, ts) ==
    Returns(results, Len(kept),
            <<LogRow(trimmed, source, Len(kept),
                     IF results # <<>> THEN results[1].score ELSE NULL, ts)>>)

\* Sorting, deduplication and truncation of the rows a branch found.
Ranked(kept, trimmed, source, limit, ts) ==
    Logged(kept, Results(Slice(kept, limit)), trimmed, source, ts)

\* The three branches of search and what follows them.
Searched(docs, fts, ecs, trimmed, queryType, tokens, source, mode, limit, ts, found) ==
    IF trimmed = <<>> THEN Returns(<<>>, 0, <<>>)
    ELSE IF queryType = "keyword" /\ tokens = <<>>
    THEN Returns(<<>>, 0, <<LogRow(trimmed, source, 0, NULL, ts)>>)
    ELSE IF found.threw
    THEN [threw |-> TRUE, results |-> <<>>, totalCount |-> 0, log |-> <<>>]
    ELSE Ranked(Kept(SortByScore(found.rows), mode), trimmed, source, limit, ts)

\* The branch taken for a query type.
Found(docs, fts, ecs, trimmed, queryType, tokens, source, mode, limit) ==
    CASE queryType = "error_code" ->
             ErrorCodeBranch(docs, ecs, trimmed, source, mode, limit)
      [] queryType = "api_path" ->
             ApiPathBranch(docs, trimmed, source, mode, limit)
      [] OTHER ->
             KeywordBranch(docs, fts, trimmed, tokens, source, mode)

\* search with the query trimmed and classified.
Classified(docs, fts, ecs, trimmed, queryType, tokens, source, mode, limit, ts) ==
    Searched(docs, fts, ecs, trimmed, queryType, tokens, source, mode, limit, ts,
             Found(docs, fts, ecs, trimmed, queryType, tokens, source, mode, limit))

\* search with the query trimmed.
Trimmed(docs, fts, ecs, trimmed, source, mode, limit, ts) ==
    Classified(docs, fts, ecs, trimmed, detectQueryType(trimmed),
               tokenizeForSearch(trimmed), source, mode, limit, ts)

\* search(options): what it returns, whether it throws, and the rows it
\* logs (none or one).
search(docs, fts, ecs, options, ts) ==
    Trimmed(docs, fts, ecs, Trim(options.query), options.source, options.mode,
            MathMin(Coalesce(options, "limit", Num(5)), Num(20)), ts)

----------------------------------------------------------------------------
\* GET /search (api/src/routes/search.ts)

\* The handler once search has returned or thrown: the rows search logged
\* are in search_log, and the reply is the result or the error handler's 500.
Replied(params, r) ==
    /\ search_log' =
           search_log \o [i \in DOMAIN r.log |->
                             r.log[i] @@ [id |-> Len(search_log) + i]]
    /\ resp' = IF r.threw
               THEN Served("search", NULL, params, 500,
                           [error |-> "Internal Server Error"])
               ELSE Served("search", NULL, params, 200,
                           [results |-> r.results, totalCount |-> r.totalCount])

\* request.query.source || undefined, request.query.mode || undefined
OrUndefined(params, k) ==
    IF Has(params, k) /\ params[k] # "" THEN params[k] ELSE NULL

\* Math.min(Math.max(parseInt(limit || '5', 10), 1), 20)
limitNum(params) ==
    MathMin(MathMax(parseInt(IF Has(params, "limit") /\ params.limit # <<>>
                             THEN params.limit ELSE <<"5">>),
                    Num(1)),
            Num(20))

\* params is request.query: q is a text, source and mode are strings, limit
\* is a string given by its characters; a parameter may be absent.
Search(params) ==
    /\ Request
    /\ UNCHANGED <<documents, documents_fts, sources, error_codes, ec_seq, held,
                   sync_log>>
    /\ IF ~Has(params, "q") \/ params.q = <<>>
       THEN /\ resp' = Served("search", NULL, params, 400, [error |-> "q is required"])
            /\ UNCHANGED search_log
       ELSE Replied(params,
                    search(documents, documents_fts, error_codes,
                           [query  |-> params.q,
                            source |-> OrUndefined(params, "source"),
                            mode   |-> OrUndefined(params, "mode"),
                            limit  |-> limitNum(params)],
                           now))

\* Number of logged searches of a behaviour of SearchSpec.
MaxSearches == 1

ApiPath == "/cgi-bin/message/send"

\* The documents the searches find.
D1 == [path |-> <<"message", "send">>, title |-> TS, content |-> CS1,
       api_path |-> ApiPath, dev_mode |-> "internal",
       error_codes |-> <<[code |-> "60011", message |-> "invalid"]>>]
D2 == [path |-> <<"message">>, title |-> TS, content |-> CS2,
       api_path |-> ApiPath, dev_mode |-> "third_party"]
D3 == [path |-> <<"token">>, title |-> TT, content |-> CT, doc_type |-> "guide",
       dev_mode |-> "internal", last_updated |-> "2024-01-01"]
D4 == [path |-> <<"message", "v2">>, title |-> TS, content |-> CS2,
       api_path |-> ApiPath, dev_mode |-> "third_party"]
F1 == [path |-> <<"message">>, title |-> TS, content |-> CF,
       last_updated |-> "now-60d"]

SearchSeeds ==
    { Named(Bulk("wecom", <<D1, D2, D3, D4>>)), Named(Bulk("feishu", <<F1>>)) }

QCode    == <<"60011">>
QErrcode == <<"errcode", " ", "60011">>
QNoCode  == <<"99999">>
QPath    == <<"/cgi-bin/message">>
QWords   == <<"fasong", "xiaoxi">>
QThree   == <<"diaoyong", " ", "jiekou", " ", "fasong">>
QStop    == <<"de", ",">>
QBlank   == <<" ">>
QOr      == <<"huoqu", " ", "OR", " ", "jiekou">>
QScope   == <<"contact:user_id">>
QNone    == <<"bucunzai">>
QToken   == <<" ", "Access_Token">>

SearchRequests ==
    { [q |-> QCode],
      [q |-> QErrcode],
      [q |-> QErrcode, source |-> "feishu"],
      [q |-> QCode, limit |-> <<"a", "b", "c">>],
      [q |-> QCode, mode |-> "third_party"],
      [q |-> QNoCode],
      [q |-> QPath],
      [q |-> QPath, mode |-> "internal", limit |-> <<"0">>],
      [q |-> QPath, source |-> "feishu", limit |-> <<>>],
      [q |-> QWords],
      [q |-> QWords, limit |-> <<"1">>],
      [q |-> QWords, source |-> "wecom", limit |-> <<"9", "9", "9">>],
      [q |-> QWords, mode |-> "third_party"],
      [q |-> QWords, limit |-> <<"a", "b", "c">>],
      [q |-> QWords, source |-> "", limit |-> <<"-", "3">>],
      [q |-> QThree],
      [q |-> QStop],
      [q |-> QBlank],
      [q |-> QOr],
      [q |-> QScope],
      [q |-> QNone],
      [q |-> QToken],
      [source |-> "wecom"] }

SearchNext ==
    \/ \E body \in SearchSeeds : AdminBulkUpsert(Bearer, body) /\ UNCHANGED <<sync, adapters>>
    \/ AdminDeleteDoc(Bearer, makeDocId("wecom", PathStr(D1.path))) /\ UNCHANGED <<sync, adapters>>
    \/ AdminReindex(Bearer) /\ UNCHANGED <<sync, adapters>>
    \/ \E params \in SearchRequests :
           Len(search_log) < MaxSearches /\ Search(params) /\ UNCHANGED <<sync, adapters>>

SearchSpec == Init /\ [][SearchNext]_vars

----------------------------------------------------------------------------
\* Claims about GET /search

\* A step that served a search request which reached the engine (q was given).
SearchStep == clock' # clock /\ resp'.op = "search" /\ resp'.status # 400

\* C12: every call of search that reaches the engine appends exactly one row
\* to search_log, whatever the query type and whatever the outcome.
C12_OneRowPerSearch ==
    [][SearchStep => Len(search_log') = Len(search_log) + 1]_vars

\* A reply of GET /search that carries a result list.
SearchReply == resp.op = "search" /\ resp.status = 200

\* The limits the contract allows for a request: 5 when none is asked, the
\* asked number brought into 1..20, any of 1..20 when it is not a number.
ContractLimits(params) ==
    IF ~Has(params, "limit") \/ params.limit = <<>> THEN {5}
    ELSE IF parseInt(params.limit).nan THEN 1..20
    ELSE {n \in 1..20 : \/ n = parseInt(params.limit).n
                        \/ n = 1 /\ parseInt(params.limit).n < 1
                        \/ n = 20 /\ parseInt(params.limit).n > 20}

\* C13: for every requested limit the effective limit is an integer in 1..20
\* (absent gives 5, 0 gives 1, 999 gives 20): the result list has at most
\* that many entries and is non-empty whenever a candidate matched.
C13_LimitClamped ==
    SearchReply =>
        \E n \in ContractLimits(resp.req) :
            /\ Len(resp.body.results) <= n
            /\ Len(resp.body.results) = n \/ Len(resp.body.results) = resp.body.totalCount

\* The documents whose content contains a code and which pass the source
\* and mode filters of a request.
Holding(code, params) ==
    {i \in DOMAIN documents :
        /\ Includes(AtomsOf(documents[i].content), Parts(code))
        /\ Filtered(documents[i], OrUndefined(params, "source"),
                    OrUndefined(params, "mode"))}

\* C14: an error-code query (digits, with or without `errcode` before them)
\* answers exactly the linked document at score 50 when error_codes links
\* the code to an existing document; the documents whose content contains
\* the code, under the source and mode filters, each at score 50 and at most
\* limit of them, when the entry has no linked document; nothing when the
\* code is not in error_codes.
C14_ErrorCodeLookup ==
    (resp.op = "search" /\ resp.status # 400
        /\ detectQueryType(Trim(resp.req.q)) = "error_code") =>
    LET code   == CodeStr(Trim(resp.req.q))[1]
        ec     == findErrorCode(error_codes, code)
        linked == {i \in DOMAIN documents :
                      ec # NoErrorCode /\ documents[i].id = ec.doc_id}
    IN  /\ resp.status = 200
        /\ ec = NoErrorCode => resp.body.results = <<>>
        /\ linked # {} =>
               /\ Len(resp.body.results) = 1
               /\ resp.body.results[1].id = ec.doc_id
               /\ resp.body.results[1].score = 5000
        /\ (ec # NoErrorCode /\ linked = {}) =>
               /\ \A k \in DOMAIN resp.body.results :
                      /\ resp.body.results[k].id \in Holding(code, resp.req)
                      /\ resp.body.results[k].score = 5000
               /\ \E n \in ContractLimits(resp.req) : Len(resp.body.results) <= n
               /\ Holding(code, resp.req) # {} => resp.body.results # <<>>

\* The candidates of the search a reply answers: the rows its branch found,
\* with their scores, before they are sorted.
Candidates ==
    LET trimmed == Trim(resp.req.q)
    IN  IF trimmed = <<>> \/ (detectQueryType(trimmed) = "keyword"
                              /\ tokenizeForSearch(trimmed) = <<>>)
        THEN {}
        ELSE LET rows == Found(documents, documents_fts, error_codes, trimmed,
                               detectQueryType(trimmed), tokenizeForSearch(trimmed),
                               OrUndefined(resp.req, "source"),
                               OrUndefined(resp.req, "mode"),
                               MathMin(limitNum(resp.req), Num(20))).rows
             IN  {rows[i] : i \in DOMAIN rows}

\* The candidates with the title and api_path of a result.
Group(r) == {c \in Candidates : c.doc.title = r.title /\ c.doc.api_path = r.api_path}

\* C15: without a mode filter no two returned results share (title,
\* api_path), each returned result is a highest-scoring candidate of its
\* group, and its other_modes are exactly the dev_mode values of the other
\* candidates of the group, but for its own mode; with a mode filter no
\* candidates are merged and other_modes is empty.
C15_DedupByTitleAndPath ==
    SearchReply =>
        LET rs == resp.body.results
        IN  IF OrUndefined(resp.req, "mode") = NULL
            THEN /\ \A i, j \in DOMAIN rs :
                        (rs[i].title = rs[j].title /\ rs[i].api_path = rs[j].api_path)
                            => i = j
                 /\ \A i \in DOMAIN rs :
                        /\ \E k \in Group(rs[i]) :
                               /\ k.doc.id = rs[i].id
                               /\ \A c \in Group(rs[i]) : c.score <= k.score
                        /\ {rs[i].other_modes[m] : m \in DOMAIN rs[i].other_modes}
                             = {c.doc.dev_mode : c \in {g \in Group(rs[i]) :
                                                          g.doc.id # rs[i].id}}
                               \ {rs[i].dev_mode, NULL}
                 /\ resp.body.totalCount =
                        Cardinality({<<c.doc.title, c.doc.api_path>> : c \in Candidates})
            ELSE /\ resp.body.totalCount = Cardinality(Candidates)
                 /\ \A i \in DOMAIN rs : rs[i].other_modes = <<>>

C15_Witness ==
    /\ SearchReply
    /\ OrUndefined(resp.req, "mode") = NULL
    /\ \E i \in DOMAIN resp.body.results :
           /\ resp.body.results[i].other_modes # <<>>
           /\ Cardinality(Group(resp.body.results[i])) = 3

\* A 200 reply to a keyword query.
KeywordReply ==
    /\ SearchReply
    /\ Trim(resp.req.q) # <<>>
    /\ detectQueryType(Trim(resp.req.q)) = "keyword"

\* C16: the score of each result of a keyword query is 20 when the title
\* contains the whole query (case-insensitively), plus 5 times the fraction
\* of the query tokens the title contains, plus |bm25 rank| (when the rows
\* come from the FTS query), plus 3 for an api_reference, plus 3 or 1 when
\* last_updated is within 30 or 90 days, minus 0.5 for each level of
\* path_depth, rounded to two decimals; the results are in non-increasing
\* order of score.
C16_ScoreAndOrder ==
    KeywordReply =>
        LET rs     == resp.body.results
            query  == Lowered(Atoms(Trim(resp.req.q)))
            tokens == tokenizeForSearch(Trim(resp.req.q))
        IN  /\ \A i \in DOMAIN rs :
                   LET doc    == documents[rs[i].id]
                       title  == Lowered(AtomsOf(doc.title))
                       hits   == Cardinality({t \in DOMAIN tokens :
                                     Includes(title, Lowered(Parts(tokens[t])))})
                       rank   == IF Fts5Rejects(tokens) THEN 0
                                 ELSE bm25(documents_fts, doc.rowid, tokens)
                       age    == DaysSince(doc.last_updated)
                       recent == IF doc.last_updated = NULL \/ age.nan THEN 0
                                 ELSE IF age.n <= 30 THEN 300
                                 ELSE IF age.n <= 90 THEN 100 ELSE 0
                   \* in thousandths of a point, then rounded to hundredths
                   IN  rs[i].score =
                         ( (IF Includes(title, query) THEN 20000 ELSE 0)
                           + (5000 * hits) \div Len(tokens)
                           + 1000 * (IF rank < 0 THEN 0 - rank ELSE rank)
                           + (IF doc.doc_type = "api_reference" THEN 3000 ELSE 0)
                           + 10 * recent
                           - 500 * doc.path_depth + 5 ) \div 10
            /\ \A i, j \in DOMAIN rs : i < j => rs[i].score >= rs[j].score

C16_Witness ==
    /\ KeywordReply
    /\ Len(resp.body.results) >= 2
    /\ resp.body.results[1].score > resp.body.results[2].score
    /\ resp.body.results[2].score > 0

\* A token occurs in a document: in its title or content as stored (case
\* apart), or as a phrase of what the index holds for it.
Occurs(token, doc) ==
    \/ Includes(Lowered(AtomsOf(doc.title)), Lowered(Parts(token)))
    \/ Includes(Lowered(AtomsOf(doc.content)), Lowered(Parts(token)))
    \/ Fts5Phrase(documents_fts, doc.rowid, token)

\* C17: every document returned for a keyword query matches all tokens of
\* the tokenized query, whether the rows come from the FTS MATCH expression
\* or from the LIKE fallback.
C17_AllTokensMatch ==
    KeywordReply =>
        \A i \in DOMAIN resp.body.results :
            \A t \in DOMAIN tokenizeForSearch(Trim(resp.req.q)) :
                Occurs(tokenizeForSearch(Trim(resp.req.q))[t],
                       documents[resp.body.results[i].id])

\* The search a reply answers was a keyword query whose MATCH expression
\* the FTS engine rejects.
FallbackSearch ==
    /\ resp.op = "search" /\ resp.status # 400
    /\ Trim(resp.req.q) # <<>>
    /\ detectQueryType(Trim(resp.req.q)) = "keyword"
    /\ tokenizeForSearch(Trim(resp.req.q)) # <<>>
    /\ Fts5Rejects(tokenizeForSearch(Trim(resp.req.q)))

\* C18: when the FTS engine rejects the MATCH expression the search does not
\* fail, and what it returns are documents in which every token occurs in
\* content or title, under the source and mode filters of the request.
C18_FallbackFindsTokens ==
    FallbackSearch =>
        /\ resp.status = 200
        /\ \A i \in DOMAIN resp.body.results :
               LET doc == documents[resp.body.results[i].id]
               IN  /\ Filtered(doc, OrUndefined(resp.req, "source"),
                               OrUndefined(resp.req, "mode"))
                   /\ \A t \in DOMAIN tokenizeForSearch(Trim(resp.req.q)) :
                          LET token == Lowered(Parts(tokenizeForSearch(Trim(resp.req.q))[t]))
                          IN  \/ Includes(Lowered(AtomsOf(doc.title)), token)
                              \/ Includes(Lowered(AtomsOf(doc.content)), token)

----------------------------------------------------------------------------
\* Sync runner (scrapers/src/sync.ts)
\*
\* sync holds the locals of one call of syncSource: the entries whose task
\* has not started (todo), the entries whose fetchContent is awaited
\* (fetching), the tasks awaiting their flushPending (waiting), pendingDocs,
\* the POSTs sent and not yet answered (inflight) and result.  Three fields
\* are no locals of the code: lastCount notes how many documents of the
\* source the store held when the run began, failed the entries whose
\* fetchContent rejected, posted the batches whose POST is over (lost: it
\* failed).

DEFAULT_CONCURRENCY == 6

\* Documents in a batch (50 in sync.ts).
BATCH_SIZE == 2

\* Calls of syncSource in a behaviour of SyncSpec.
MaxRuns == 2

\* WecomSource.checkQualityGate.  No statement of syncSource calls it.
checkQualityGate(currentCount, lastCount) ==
    IF lastCount <= 0 THEN TRUE
    ELSE IF 10 * currentCount < 8 * lastCount THEN FALSE
    ELSE TRUE

\* Entries of a catalog, and what fetchContent gives for each.
E1 == [path |-> PathA, title |-> T1]
E2 == [path |-> PathAB, title |-> T2, devMode |-> "internal", docType |-> "guide",
       apiPath |-> "POST /cgi-bin/send"]
E3 == [path |-> <<"token">>, title |-> TT, lastUpdated |-> "2024-01-01"]
E4 == [path |-> <<"message", "v2">>, title |-> TS]

DocContent(entry) == [markdown |-> IF entry = E3 THEN C2 ELSE C1]

\* What fetchCatalog resolves to.
Catalogs == {<<E1, E2, E3, E4>>, <<E1, E2, E3>>, <<E2, E1>>, <<E3>>, <<>>}

\* A field of the posted document is left out when its value is undefined.
Optional(name, o, k) == IF Has(o, k) THEN [x \in {name} |-> o[k]] ELSE <<>>

\* The PendingDoc of an entry and its content.
PendingDoc(entry, content) ==
    [path |-> entry.path, title |-> entry.title, content |-> content.markdown]
    @@ Optional("api_path", entry, "apiPath")
    @@ Optional("dev_mode", entry, "devMode")
    @@ Optional("doc_type", entry, "docType")
    @@ Optional("source_url", entry, "sourceUrl")
    @@ Optional("last_updated", entry, "lastUpdated")

SyncResult == [created |-> 0, updated |-> 0, unchanged |-> 0, deleted |-> 0, errors |-> 0]

\* All variables but sync.
server == <<documents, documents_fts, sources, error_codes, ec_seq, clock, resp,
            held, issued, search_log, sync_log>>

\* process.exitCode as the action of a CLI command sets it once its sync is
\* over; <<>> is undefined, with which the process exits 0.  cmd is the
\* command, hadErrors tells whether an earlier result of syncAll had errors.
ExitCode(s) ==
    CASE s.cmd = "sync" ->
             IF s.pc = "failed" \/ s.result.errors > 0 THEN <<1>> ELSE <<0>>
      [] s.cmd = "sync-all" ->
             IF s.hadErrors \/ s.pc = "failed" \/ s.result.errors > 0
             THEN <<1>> ELSE <<0>>
      [] s.cmd = "add-openapi" ->
             IF s.pc = "failed" THEN <<1>> ELSE <<>>

\* syncSource has returned or thrown: the command sets the exit code when
\* it has no further source to sync (left).
Settled(s) ==
    IF s.pc \in {"done", "failed"} /\ s.left = <<>>
    THEN [s EXCEPT !.exitCode = ExitCode(s)]
    ELSE s

\* The locals of syncSource once fetchCatalog has resolved to entries.
Called(cmd, left, had, sourceId, entries) ==
    Settled([pc        |-> IF entries = <<>> THEN "done" ELSE "running",
             source    |-> sourceId,
             runs      |-> sync.runs + 1,
             total     |-> Len(entries),
             lastCount |-> CountBySource(documents, sourceId),
             todo      |-> entries,
             fetching  |-> {},
             waiting   |-> 0,
             pending   |-> <<>>,
             inflight  |-> {},
             processed |-> 0,
             result    |-> SyncResult,
             cmd       |-> cmd,
             left      |-> left,
             hadErrors |-> had,
             exitCode  |-> <<>>,
             failed    |-> {},
             posted    |-> {}])

\* syncSource when fetchCatalog rejects.
Refused(cmd, left, had, sourceId) ==
    Settled([pc |-> "failed", source |-> sourceId, runs |-> sync.runs + 1,
             total |-> 0, lastCount |-> CountBySource(documents, sourceId),
             todo |-> <<>>, fetching |-> {}, waiting |-> 0, pending |-> <<>>,
             inflight |-> {}, processed |-> 0, result |-> SyncResult,
             cmd |-> cmd, left |-> left, hadErrors |-> had, exitCode |-> <<>>,
             failed |-> {}, posted |-> {}])

\* No command is running and one more may start.
CommandMayStart ==
    /\ sync.pc \in {"idle", "done", "failed"}
    /\ sync.left = <<>>
    /\ sync.runs < MaxRuns

\* `sync <source>`: syncSource is called; fetchCatalog resolves to entries.
\* With no entry the call returns at once.
SyncStart(sourceId, entries) ==
    /\ CommandMayStart
    /\ sync' = Called("sync", <<>>, FALSE, sourceId, entries)
    /\ UNCHANGED server

\* fetchCatalog rejects, and so does syncSource.
SyncCatalogFails(sourceId) ==
    /\ CommandMayStart
    /\ sync' = Refused("sync", <<>>, FALSE, sourceId)
    /\ UNCHANGED server

\* The queue starts the task of the next entry when fewer than concurrency
\* tasks run.
TaskStart ==
    /\ sync.pc = "running"
    /\ sync.todo # <<>>
    /\ Cardinality(sync.fetching) + sync.waiting < DEFAULT_CONCURRENCY
    /\ sync' = [sync EXCEPT !.todo = Tail(@), !.fetching = @ \cup {Head(sync.todo)}]
    /\ UNCHANGED server

\* fetchContent of a task resolves: the document is pushed to pendingDocs,
\* and with BATCH_SIZE documents there the task takes them all, posts them
\* and awaits the answer.
FetchResolves(entry) ==
    /\ sync.pc = "running"
    /\ entry \in sync.fetching
    /\ LET pushed == Append(sync.pending, PendingDoc(entry, DocContent(entry)))
       IN  sync' = IF Len(pushed) >= BATCH_SIZE
                   THEN [sync EXCEPT !.fetching = @ \ {entry},
                                     !.pending = <<>>,
                                     !.waiting = @ + 1,
                                     !.inflight = @ \cup {[docs |-> pushed, last |-> FALSE]}]
                   ELSE [sync EXCEPT !.fetching = @ \ {entry},
                                     !.pending = pushed,
                                     !.processed = @ + 1]
    /\ UNCHANGED server

\* fetchContent of a task rejects: one error is counted.
FetchRejects(entry) ==
    /\ sync.pc = "running"
    /\ entry \in sync.fetching
    /\ sync' = [sync EXCEPT !.fetching = @ \ {entry},
                            !.result.errors = @ + 1,
                            !.processed = @ + 1,
                            !.failed = @ \cup {entry}]
    /\ UNCHANGED server

\* queue.onIdle() resolves, and flushPending posts what is left.
QueueIdle ==
    /\ sync.pc = "running"
    /\ sync.todo = <<>> /\ sync.fetching = {} /\ sync.waiting = 0
    /\ sync' = IF sync.pending = <<>>
               THEN Settled([sync EXCEPT !.pc = "done"])
               ELSE [sync EXCEPT !.pc = "flushing",
                                 !.pending = <<>>,
                                 !.inflight = {[docs |-> sync.pending, last |-> TRUE]}]
    /\ UNCHANGED server

\* The caller of flushBatch goes on: a task counts its entry as processed,
\* syncSource returns after the last flush.
Flushed(batch, result) ==
    LET answered == [docs |-> batch.docs, lost |-> result.errors > sync.result.errors]
    IN  IF batch.last
        THEN Settled([sync EXCEPT !.inflight = @ \ {batch}, !.result = result,
                                   !.pc = "done", !.posted = @ \cup {answered}])
        ELSE [sync EXCEPT !.inflight = @ \ {batch}, !.result = result,
                          !.waiting = @ - 1, !.processed = @ + 1,
                          !.posted = @ \cup {answered}]

\* Mutant of flushBatch's catch block: a lost batch counts one error.
BatchFailedOnce(result, batch) == [result EXCEPT !.errors = @ + 1]

\* flushBatch, catch block: the documents of the batch are counted as errors.
BatchFailed(result, batch) == [result EXCEPT !.errors = @ + Len(batch.docs)]

\* flushBatch, after the POST: the counts of the reply are added.
BatchCounted(result, data) ==
    [result EXCEPT !.created   = @ + data.created,
                   !.updated   = @ + data.updated,
                   !.unchanged = @ + data.unchanged]

\* The server handles the POST of a batch and the client reads the answer;
\* axios rejects on a status that is not 2xx.
FlushAnswered(batch) ==
    /\ batch \in sync.inflight
    /\ AdminBulkUpsert(Bearer, Named(Bulk(sync.source, batch.docs)))
    /\ sync' = Flushed(batch, IF resp'.status = 200
                              THEN BatchCounted(sync.result, resp'.body)
                              ELSE BatchFailed(sync.result, batch))

\* The POST of a batch fails before the server handles it.
FlushFails(batch) ==
    /\ batch \in sync.inflight
    /\ sync' = Flushed(batch, BatchFailed(sync.result, batch))
    /\ UNCHANGED server

SyncNext ==
    \/ \E entries \in Catalogs : SyncStart("wecom", entries) /\ UNCHANGED adapters
    \/ SyncCatalogFails("wecom") /\ UNCHANGED adapters
    \/ TaskStart /\ UNCHANGED adapters
    \/ \E entry \in sync.fetching : FetchResolves(entry) /\ UNCHANGED adapters
    \/ \E entry \in sync.fetching : FetchRejects(entry) /\ UNCHANGED adapters
    \/ QueueIdle /\ UNCHANGED adapters
    \/ \E batch \in sync.inflight : FlushAnswered(batch) /\ UNCHANGED adapters
    \/ \E batch \in sync.inflight : FlushFails(batch) /\ UNCHANGED adapters

SyncSpec == Init /\ [][SyncNext]_vars

----------------------------------------------------------------------------
\* Claims about the sync runner

\* The sync_log rows of the source of the run.
RunLogs == {i \in DOMAIN sync_log : sync_log[i].source_id = sync.source}

\* C19: a sync run has a sync_log row from before its first document write,
\* and when the run is over the row carries a final status, not `running`.
C19_SyncLogBracketsRun ==
    /\ (sync.result.created + sync.result.updated > 0) => RunLogs # {}
    /\ sync.pc \in {"done", "failed"} =>
           \E i \in RunLogs : sync_log[i].status \in {"success", "failed"}

\* C20: a run whose catalog has fewer entries than 80% of the documents the
\* source had before is aborted before any content is fetched or posted.
C20_QualityGateAborts ==
    (sync.pc # "idle" /\ ~checkQualityGate(sync.total, sync.lastCount)) =>
        /\ sync.pc = "failed"
        /\ sync.fetching = {} /\ sync.inflight = {} /\ sync.processed = 0

\* C21: during a sync run at most one bulk-upsert POST is in flight.
C21_OnePostInFlight == Cardinality(sync.inflight) <= 1

----------------------------------------------------------------------------
\* The CLI commands that run a sync (the commander program of the scrapers)

\* Object.keys(SOURCE_REGISTRY)
SOURCE_REGISTRY == <<"feishu", "wecom">>

\* What fetchCatalog does in a run of a command: it resolves to entries or
\* rejects.
CliFetches ==
    {[ok |-> TRUE, entries |-> <<E1, E2>>], [ok |-> TRUE, entries |-> <<E3>>],
     [ok |-> FALSE, entries |-> <<>>]}

\* syncSource as a command calls it.
CliRun(cmd, left, had, sourceId, fetched) ==
    /\ sync' = IF fetched.ok THEN Called(cmd, left, had, sourceId, fetched.entries)
               ELSE Refused(cmd, left, had, sourceId)
    /\ UNCHANGED server

\* sync <source>
CliSync(sourceId, fetched) ==
    /\ CommandMayStart
    /\ CliRun("sync", <<>>, FALSE, sourceId, fetched)

\* sync --all: syncAll calls syncSource for the first registered source.
CliSyncAll(fetched) ==
    /\ CommandMayStart
    /\ CliRun("sync-all", Tail(SOURCE_REGISTRY), FALSE, Head(SOURCE_REGISTRY), fetched)

\* syncAll pushes the result of a source (errors: 1 when syncSource threw)
\* and calls syncSource for the next one.
CliSyncAllNext(fetched) ==
    /\ sync.pc \in {"done", "failed"}
    /\ sync.left # <<>>
    /\ CliRun(sync.cmd, Tail(sync.left),
              sync.hadErrors \/ sync.pc = "failed" \/ sync.result.errors > 0,
              Head(sync.left), fetched)

\* add-openapi <id> --sync: the source is registered and synced.
CliAddOpenapi(id, fetched) ==
    /\ CommandMayStart
    /\ CliRun("add-openapi", <<>>, FALSE, id, fetched)

CliNext ==
    \/ \E fetched \in CliFetches : CliSync("wecom", fetched) /\ UNCHANGED adapters
    \/ \E fetched \in CliFetches : CliSyncAll(fetched) /\ UNCHANGED adapters
    \/ \E fetched \in CliFetches : CliSyncAllNext(fetched) /\ UNCHANGED adapters
    \/ \E fetched \in CliFetches : CliAddOpenapi("petstore", fetched) /\ UNCHANGED adapters
    \/ TaskStart /\ UNCHANGED adapters
    \/ \E entry \in sync.fetching : FetchResolves(entry) /\ UNCHANGED adapters
    \/ \E entry \in sync.fetching : FetchRejects(entry) /\ UNCHANGED adapters
    \/ QueueIdle /\ UNCHANGED adapters
    \/ \E batch \in sync.inflight : FlushAnswered(batch) /\ UNCHANGED adapters
    \/ \E batch \in sync.inflight : FlushFails(batch) /\ UNCHANGED adapters

CliSpec == Init /\ [][CliNext]_vars

\* A command is over.
CommandOver == sync.pc \in {"done", "failed"} /\ sync.left = <<>>

\* The code the process exits with.
ProcessExit == IF sync.exitCode = <<>> THEN 0 ELSE sync.exitCode[1]

\* C22: a command that ran a sync exits with 0 exactly when every source it
\* synced finished with errors = 0 and no run raised an error, with 1
\* otherwise.
C22_ExitCodeTellsErrors ==
    CommandOver =>
        IF ~sync.hadErrors /\ sync.pc = "done" /\ sync.result.errors = 0
        THEN ProcessExit = 0
        ELSE ProcessExit = 1

----------------------------------------------------------------------------
\* Taobao adapter (TaobaoSource in scrapers/src/sources/pinduoduo.ts)
\*
\* A call of fetchDocument is [entry, pc, attempt, others, waits]: attempt is
\* the parameter of the innermost call of the retry chain, others tells
\* whether a GET of the chain got an answer that was no anti-bot answer,
\* waits holds the delays (ms) the chain awaited.

BASE_DELAY == 2000
\* 5 * 60 * 1000 ms
ANTI_BOT_COOLDOWN == 300000

\* Times the session expires in a behaviour of TaobaoSpec.
MaxExpiries == 1

\* What fetchCatalog of the Taobao run resolves to.
TaobaoCatalog == <<E1, E2>>

\* What a GET of getDocument.json can give: a document, an anti-bot body
\* (isAntiBotResponse, in a 200 or in an error response), success: false,
\* HTTP 429 or 503, any other failure.
TaobaoAnswers == {"document", "anti-bot", "not-success", "429", "failed"}

\* fetchDocument after a GET that got no document: the delay the code awaits
\* before it refreshes the session and retries, <<>> when it throws.
RetryDelay(answer, attempt) ==
    CASE answer = "anti-bot" ->
             IF attempt < 2
             THEN <<IF attempt = 0 THEN ANTI_BOT_COOLDOWN ELSE ANTI_BOT_COOLDOWN * 2>>
             ELSE <<>>
      [] answer = "not-success" -> IF attempt < 2 THEN <<BASE_DELAY>> ELSE <<>>
      [] answer = "429" -> IF attempt < 3 THEN <<ANTI_BOT_COOLDOWN>> ELSE <<>>
      [] OTHER -> <<>>

\* The call of fetchDocument for an entry.
CallOf(entry) == CHOOSE c \in adapters.taobao.calls : c.entry = entry

\* The adapter with the call c replaced by d.
Moved(t, c, d) == [t EXCEPT !.calls = (@ \ {c}) \cup {d}]

\* refreshSession without the test of sessionRefreshPromise.
refreshSessionUnguarded(t) == [t EXCEPT !.refreshing = TRUE, !.inits = @ + 1]

\* refreshSession: a promise in progress is returned; otherwise initSession
\* is called and its promise kept until it settles.
refreshSession(t) ==
    IF t.refreshing THEN t
    ELSE [t EXCEPT !.refreshing = TRUE, !.inits = @ + 1]

\* The process runs `sync taobao`: createSource makes the adapter,
\* fetchCatalog calls initSession and fetches the catalog tree.
TaobaoSyncStart ==
    /\ sync.pc = "idle"
    /\ SyncStart("taobao", TaobaoCatalog)
    /\ adapters' = [adapters EXCEPT !.taobao = [TaobaoSource EXCEPT !.expired = FALSE]]

\* initSession or the catalog request of fetchCatalog throws.
TaobaoCatalogFails ==
    /\ sync.pc = "idle"
    /\ SyncCatalogFails("taobao")
    /\ adapters' = [adapters EXCEPT !.taobao = TaobaoSource]

\* A task starts: fetchContent, after throttle, calls fetchDocument.
TaobaoTaskStart ==
    /\ TaskStart
    /\ adapters' = [adapters EXCEPT !.taobao.calls =
           @ \cup {[entry |-> Head(sync.todo), pc |-> "ensure", attempt |-> 0,
                    others |-> FALSE, waits |-> <<>>]}]

\* SESSION_TTL_MS pass since the session was initialised.
SessionExpires ==
    /\ sync.pc = "running"
    /\ ~adapters.taobao.expired
    /\ adapters.taobao.expiries < MaxExpiries
    /\ adapters' = [adapters EXCEPT !.taobao.expired = TRUE, !.taobao.expiries = @ + 1]
    /\ UNCHANGED <<sync, server>>

\* ensureSession: an expired session is refreshed before the GET.
EnsureSession(entry) ==
    /\ entry \in sync.fetching
    /\ CallOf(entry).pc = "ensure"
    /\ adapters' = [adapters EXCEPT !.taobao =
           IF @.expired
           THEN Moved(refreshSession(@), CallOf(entry),
                      [CallOf(entry) EXCEPT !.pc = "await-ensure"])
           ELSE Moved(@, CallOf(entry), [CallOf(entry) EXCEPT !.pc = "get"])]
    /\ UNCHANGED <<sync, server>>

\* The GET is answered.  A document makes fetchContent resolve; an answer
\* the code retries makes the call await the delay; any other makes it throw.
Answered(entry, answer) ==
    /\ entry \in sync.fetching
    /\ CallOf(entry).pc = "get"
    /\ LET c == CallOf(entry)
           got == [c EXCEPT !.others = @ \/ answer # "anti-bot"]
           delay == RetryDelay(answer, c.attempt)
       IN  IF answer = "document"
           THEN /\ FetchResolves(entry)
                /\ adapters' = [adapters EXCEPT !.taobao =
                       Moved(@, c, [got EXCEPT !.pc = "returned"])]
           ELSE IF delay # <<>>
           THEN /\ adapters' = [adapters EXCEPT !.taobao =
                       Moved(@, c, [got EXCEPT !.pc = "delay",
                                               !.waits = Append(@, delay[1])])]
                /\ UNCHANGED <<sync, server>>
           ELSE /\ FetchRejects(entry)
                /\ adapters' = [adapters EXCEPT !.taobao =
                       Moved(@, c, [got EXCEPT !.pc = "thrown"])]

\* The delay is over: refreshSession is called and awaited.
DelayOver(entry) ==
    /\ entry \in sync.fetching
    /\ CallOf(entry).pc = "delay"
    /\ adapters' = [adapters EXCEPT !.taobao =
           Moved(refreshSession(@), CallOf(entry),
                 [CallOf(entry) EXCEPT !.pc = "await-retry"])]
    /\ UNCHANGED <<sync, server>>

\* A call that awaited the refresh, once initSession has settled: after
\* ensureSession the GET follows, after a delay fetchDocument is called with
\* attempt + 1; a failed refresh makes the call throw.
Resumed(c, ok) ==
    CASE c.pc = "await-ensure" -> [c EXCEPT !.pc = IF ok THEN "get" ELSE "rejected"]
      [] c.pc = "await-retry" ->
             IF ok THEN [c EXCEPT !.pc = "ensure", !.attempt = @ + 1]
             ELSE [c EXCEPT !.pc = "rejected"]
      [] OTHER -> c

\* initSession settles: finally clears sessionRefreshPromise, and the calls
\* that awaited the promise go on.  sessionInitAt is set by a success only.
RefreshSettles(ok) ==
    /\ adapters.taobao.refreshing
    /\ adapters' = [adapters EXCEPT !.taobao =
           [@ EXCEPT !.refreshing = FALSE,
                     !.inits = @ - 1,
                     !.expired = IF ok THEN FALSE ELSE @,
                     !.calls = {Resumed(c, ok) : c \in @}]]
    /\ UNCHANGED <<sync, server>>

\* The rejection of refreshSession leaves fetchDocument and fetchContent:
\* the catch block of the task counts an error.
RefreshThrows(entry) ==
    /\ entry \in sync.fetching
    /\ CallOf(entry).pc = "rejected"
    /\ FetchRejects(entry)
    /\ adapters' = [adapters EXCEPT !.taobao =
           Moved(@, CallOf(entry), [CallOf(entry) EXCEPT !.pc = "refresh-failed"])]

TaobaoNext ==
    \/ TaobaoSyncStart
    \/ TaobaoCatalogFails
    \/ TaobaoTaskStart
    \/ SessionExpires
    \/ \E entry \in sync.fetching : EnsureSession(entry)
    \/ \E entry \in sync.fetching, answer \in TaobaoAnswers : Answered(entry, answer)
    \/ \E entry \in sync.fetching : DelayOver(entry)
    \/ \E ok \in BOOLEAN : RefreshSettles(ok)
    \/ \E entry \in sync.fetching : RefreshThrows(entry)
    \/ QueueIdle /\ UNCHANGED adapters
    \/ \E batch \in sync.inflight : FlushAnswered(batch) /\ UNCHANGED adapters
    \/ \E batch \in sync.inflight : FlushFails(batch) /\ UNCHANGED adapters

TaobaoSpec == Init /\ [][TaobaoNext]_vars

\* The calls of fetchDocument that got anti-bot answers only and threw at
\* the third.
GaveUp ==
    {c \in adapters.taobao.calls : c.pc = "thrown" /\ ~c.others /\ c.attempt = 2}

\* C23: a document whose fetches keep getting anti-bot answers is retried
\* after 5 minutes and a session refresh, then after 10 minutes and a
\* refresh, and the third anti-bot answer raises an error that ends the sync
\* run: the run fails and fetches no further document.
C23_AntiBotEndsTheRun ==
    \A c \in GaveUp :
        /\ c.waits = <<5 * 60 * 1000, 10 * 60 * 1000>>
        /\ sync.pc = "failed"
        /\ sync.todo = <<>>

\* The entries whose call of fetchDocument awaits the promise of
\* refreshSession.
Awaiting(t) == {c.entry : c \in {d \in t.calls : d.pc \in {"await-ensure", "await-retry"}}}

\* C25: of one Taobao adapter at most one initSession started by
\* refreshSession is in progress; a call that needs a refresh while one is in
\* progress awaits that one and starts none, and once initSession has
\* settled, by success or by failure, the promise is cleared, so that the
\* next call that needs a refresh starts one.
C25_OneRefreshInProgress ==
    [][/\ adapters'.taobao.inits <= 1
       /\ \A entry \in Awaiting(adapters'.taobao) \ Awaiting(adapters.taobao) :
              /\ adapters'.taobao.refreshing
              /\ adapters'.taobao.inits = 1
       /\ adapters'.taobao.inits < adapters.taobao.inits =>
              /\ ~adapters'.taobao.refreshing
              /\ Awaiting(adapters'.taobao) = {}]_vars

\* Two calls await one refresh, and a refresh had settled before: one of the
\* calls is at its second attempt.
C25_Witness ==
    /\ adapters.taobao.refreshing
    /\ adapters.taobao.inits = 1
    /\ Cardinality(Awaiting(adapters.taobao)) = 2
    /\ \E c \in adapters.taobao.calls : c.pc = "await-retry" /\ c.attempt = 1

----------------------------------------------------------------------------
\* Summaries (generateSummary in api/src/services/search-engine.ts, served
\* by GET /doc/:docId?summary=true)
\*
\* A Markdown content is the sequence of its lines (content.split('\n')), a
\* line the sequence of its atoms: one character each, save the atoms
\* "<!--", "-->", a permission keyword, an HTTP method and an API path.

\* Lines of a content in a behaviour of SummarySpec.
MaxLines == 3

\* Summaries a behaviour of SummarySpec asks for.
MaxSummaries == 1

\* Two of the ten PERMISSION_KEYWORDS (the others are CJK words).
PERMISSION_KEYWORDS == {"permission", "scope"}

\* Characters of a description (200 in extractDescription).
MaxDescription == 20

\* A line of one character more.
LongLine == [i \in 1..(MaxDescription + 1) |-> "a"]

SummaryLines ==
    { <<>>,
      <<" ">>,
      <<"#", " ", "T">>,
      <<"#", " ", "U">>,
      <<"#", "#", " ", "S">>,
      <<" ", "a", "b", " ">>,
      <<"a", " ", "scope">>,
      <<">", " ", "*", "*", "c", "*", "*">>,
      <<"<!--", " ", "m", " ", "-->">>,
      <<"POST", " ", "/cgi-bin/send">>,
      LongLine }

RECURSIVE ContentsOf(_)
\* The contents of at most n lines.
ContentsOf(n) ==
    IF n = 0 THEN {<<>>}
    ELSE LET shorter == ContentsOf(n - 1)
         IN  shorter \cup {Append(c, l) : c \in shorter, l \in SummaryLines}

Markdowns == ContentsOf(MaxLines)

\* line.startsWith('<!--')
IsMeta(line) == line # <<>> /\ line[1] = "<!--"

\* /^#\s+/.test(line)
IsTitle(line) == Len(line) >= 2 /\ line[1] = "#" /\ line[2] = " "

\* /^#{2,}/.test(trimmed)
IsSubHeading(trimmed) == Len(trimmed) >= 2 /\ trimmed[1] = "#" /\ trimmed[2] = "#"

isPermissionParagraph(text) == \E i \in DOMAIN text : text[i] \in PERMISSION_KEYWORDS

\* String.length of a line.
RECURSIVE Width(_)
Width(line) == IF line = <<>> THEN 0 ELSE Len(Head(line)) + Width(Tail(line))

\* .replace(/^>\s*/, '')
Unquoted(text) == IF text # <<>> /\ text[1] = ">" THEN TrimStart(Tail(text)) ELSE text

RECURSIVE Unbolded(_)
\* .replace(/\*\*/g, '')
Unbolded(text) ==
    IF Len(text) >= 2 /\ text[1] = "*" /\ text[2] = "*" THEN Unbolded(Tail(Tail(text)))
    ELSE IF text = <<>> THEN <<>>
    ELSE <<Head(text)>> \o Unbolded(Tail(text))

\* The end of extractDescription: the markup goes (no line of SummaryLines
\* holds a link), and a text of more than MaxDescription characters is cut
\* to three less and "...".  The lines of SummaryLines that are longer hold
\* atoms of one character only.
Described(trimmed) ==
    LET desc == Unbolded(Unquoted(trimmed))
    IN  IF Width(desc) > MaxDescription
        THEN SubSeq(desc, 1, MaxDescription - 3) \o <<".", ".", ".">>
        ELSE desc

RECURSIVE extractDescription(_, _, _)
\* extractDescription(lines): <<>> is null.  foundTitle and skipBlank are the
\* flags of the loop.
extractDescription(lines, foundTitle, skipBlank) ==
    IF lines = <<>> THEN <<>>
    ELSE LET line == Head(lines)
             rest == Tail(lines)
             trimmed == Trim(line)
         IN  IF IsMeta(line) THEN extractDescription(rest, foundTitle, skipBlank)
             ELSE IF ~foundTitle /\ IsTitle(line) THEN extractDescription(rest, TRUE, TRUE)
             ELSE IF ~foundTitle THEN extractDescription(rest, FALSE, skipBlank)
             ELSE IF skipBlank /\ trimmed = <<>> THEN extractDescription(rest, TRUE, TRUE)
             ELSE IF IsSubHeading(trimmed) THEN <<>>
             ELSE IF isPermissionParagraph(trimmed) THEN extractDescription(rest, TRUE, FALSE)
             ELSE IF trimmed = <<>> THEN extractDescription(rest, TRUE, FALSE)
             ELSE <<Described(trimmed)>>

RECURSIVE extractTitle(_)
\* extractTitle(lines): /^#\s+(.+)/, trimmed; <<>> is null.
extractTitle(lines) ==
    IF lines = <<>> THEN <<>>
    ELSE IF ~IsMeta(Head(lines)) /\ IsTitle(Head(lines))
            /\ TrimStart(Tail(Head(lines))) # <<>>
    THEN <<Trim(Tail(Head(lines)))>>
    ELSE extractTitle(Tail(lines))

HttpMethods == {"GET", "POST", "PUT", "PATCH", "DELETE", "HEAD", "OPTIONS"}

\* extractApiInfo(content): API_PATH_RE finds a method, a blank and a path;
\* <<>> is null.  A path of the model's lines follows a method.
extractApiInfo(lines) ==
    LET hits == SelectSeq(lines, LAMBDA l : Len(l) >= 3 /\ l[1] \in HttpMethods /\ l[2] = " ")
    IN  IF hits = <<>> THEN <<>> ELSE <<[method |-> hits[1][1], path |-> hits[1][3]]>>

\* The last line of a summary.
FullTextPointer(docId) == <<"full text: ", "/doc/", docId>>

\* generateSummary(content, docId, sourceId): the lines it joins with '\n'.
\* No line of SummaryLines begins a table or a code fence, so that the
\* sections of extractFirstTable and extractJsonExamples push nothing.
generateSummary(lines, docId) ==
    LET metaLines == SelectSeq(lines, IsMeta)
        title == extractTitle(lines)
        description == extractDescription(lines, FALSE, TRUE)
        apiInfo == extractApiInfo(lines)
    IN  metaLines
        \o (IF metaLines # <<>> THEN <<<<>>>> ELSE <<>>)
        \o (IF title # <<>> /\ title[1] # <<>> THEN <<<<"#", " ">> \o title[1], <<>>>> ELSE <<>>)
        \o (IF description # <<>> /\ description[1] # <<>>
            THEN <<<<">", " ">> \o description[1], <<>>>> ELSE <<>>)
        \o (IF apiInfo # <<>>
            THEN << <<"## API">>, <<>>, <<"- method: ", apiInfo[1].method>>,
                    <<"- path: ", apiInfo[1].path>>, <<>> >>
            ELSE <<>>)
        \o <<FullTextPointer(docId)>>

\* GET /doc/:docId?summary=true for a stored document with this content.
Summarize(content) ==
    /\ clock < MaxSummaries
    /\ clock' = clock + 1
    /\ resp' = Served("summary", NULL, content, 200,
                      generateSummary(content, "wecom_1"))
    /\ UNCHANGED <<documents, documents_fts, sources, error_codes, ec_seq, held,
                   issued, search_log, sync_log, sync, adapters>>

SummaryNext == \E content \in Markdowns : Summarize(content)

SummarySpec == Init /\ [][SummaryNext]_vars

\* The lines of a content after its first `# ` title.
RECURSIVE AfterTitle(_)
AfterTitle(lines) ==
    IF lines = <<>> THEN <<>>
    ELSE IF IsTitle(Head(lines)) THEN Tail(lines)
    ELSE AfterTitle(Tail(lines))

\* A line that is a paragraph to describe the document with: not empty, no
\* heading, no comment, without a permission keyword.
IsParagraph(line) ==
    /\ Trim(line) # <<>>
    /\ Trim(line)[1] # "#"
    /\ ~IsMeta(line)
    /\ ~isPermissionParagraph(line)

\* The description lines of a summary.
DescriptionsIn(summary) == SelectSeq(summary, LAMBDA p : p # <<>> /\ p[1] = ">")

\* C24: the summary describes the document by the first paragraph after the
\* first `#` title that is not empty, no heading and free of permission
\* keywords, without its markup and cut to at most MaxDescription (200)
\* characters; without such a paragraph it has no description; the
\* full-text pointer of the document ends it in both cases.
C24_DescriptionIsFirstParagraph ==
    resp.op = "summary" =>
        LET paragraphs == SelectSeq(AfterTitle(resp.req), IsParagraph)
        IN  /\ DescriptionsIn(resp.body) =
                   IF paragraphs = <<>> THEN <<>>
                   ELSE <<<<">", " ">> \o Described(Trim(paragraphs[1]))>>
            /\ \A i \in DOMAIN DescriptionsIn(resp.body) :
                   Width(DescriptionsIn(resp.body)[i]) <= MaxDescription + 2
            /\ resp.body[Len(resp.body)] = FullTextPointer("wecom_1")

----------------------------------------------------------------------------
\* One run of syncSource from its call to its return

\* The process calls syncSource for the first time.
RunStart(sourceId, entries) ==
    /\ sync.pc = "idle"
    /\ SyncStart(sourceId, entries)

RunNext ==
    \/ \E entries \in Catalogs : RunStart("wecom", entries) /\ UNCHANGED adapters
    \/ TaskStart /\ UNCHANGED adapters
    \/ \E entry \in sync.fetching : FetchResolves(entry) /\ UNCHANGED adapters
    \/ \E entry \in sync.fetching : FetchRejects(entry) /\ UNCHANGED adapters
    \/ QueueIdle /\ UNCHANGED adapters
    \/ \E batch \in sync.inflight : FlushAnswered(batch) /\ UNCHANGED adapters
    \/ \E batch \in sync.inflight : FlushFails(batch) /\ UNCHANGED adapters

RunSpec == Init /\ [][RunNext]_vars

RECURSIVE DocsIn(_)
\* The number of documents in a set of batches.
DocsIn(batches) ==
    IF batches = {} THEN 0
    ELSE LET b == CHOOSE b \in batches : TRUE
         IN  Len(b.docs) + DocsIn(batches \ {b})

\* C26: when a run returns normally, created + updated + unchanged + errors
\* is the number of entries of the catalog: an entry whose fetchContent
\* failed counts one error, every other entry's document was posted in
\* exactly one batch of at most BATCH_SIZE documents (nothing is left
\* pending), and a batch whose POST failed counts its size in errors and
\* does not end the run.
C26_CountsAddUp ==
    /\ sync.pc = "done" =>
           /\ sync.result.created + sync.result.updated + sync.result.unchanged
                  + sync.result.errors = sync.total
           /\ sync.result.errors =
                  Cardinality(sync.failed) + DocsIn({b \in sync.posted : b.lost})
           /\ Cardinality(sync.failed) + DocsIn(sync.posted) = sync.total
           /\ sync.pending = <<>> /\ sync.inflight = {}
           /\ \A b \in sync.posted : Len(b.docs) \in 1..BATCH_SIZE
           /\ \A b, c \in sync.posted : \A i \in DOMAIN b.docs, j \in DOMAIN c.docs :
                  b.docs[i].path = c.docs[j].path => b = c /\ i = j
           /\ \A b \in sync.posted : \A i \in DOMAIN b.docs :
                  \A entry \in sync.failed : b.docs[i].path # entry.path
    /\ sync.pc = "failed" => sync.posted = {}

\* A run has returned after one fetch failed, one batch was posted when
\* full and lost, and the rest was posted after the queue drained.
C26_Witness ==
    /\ sync.pc = "done"
    /\ sync.failed # {}
    /\ \E b, c \in sync.posted : b.lost /\ Len(b.docs) = BATCH_SIZE /\ ~c.lost
    /\ sync.result.created > 0

----------------------------------------------------------------------------
\* OpenAPI adapter (OpenAPISource in part_007): schemas rendered to Markdown
\*
\* A schema is [kind, ref, names, subs]: kind "ref" has $ref
\* '#/components/schemas/<ref>'; "object" has the properties names[i] of
\* schema subs[i]; "array" has items subs[1]; "oneOf" and "allOf" have the
\* schemas subs; "string" is a basic type; "stub" is the schema
\* { description: '[<names[1]>: <ref>]' } that resolveRef makes up.  The
\* schemas of a spec (components.schemas) are a function of their names.

MAX_REF_DEPTH == 5

Basic == [kind |-> "string", ref |-> "", names |-> <<>>, subs |-> <<>>]
Ref(name) == [kind |-> "ref", ref |-> name, names |-> <<>>, subs |-> <<>>]
Obj(names, subs) == [kind |-> "object", ref |-> "", names |-> names, subs |-> subs]
Arr(items) == [kind |-> "array", ref |-> "", names |-> <<>>, subs |-> <<items>>]
OneOf(subs) == [kind |-> "oneOf", ref |-> "", names |-> <<>>, subs |-> subs]
AllOf(subs) == [kind |-> "allOf", ref |-> "", names |-> <<>>, subs |-> subs]
Stub(why, name) == [kind |-> "stub", ref |-> name, names |-> <<why>>, subs |-> <<>>]

\* The schemas named A and B of the specs of RenderSpec.
SchemasA ==
    { Basic, Ref("A"), Ref("B"),
      Obj(<<"next">>, <<Ref("A")>>),
      Obj(<<"id", "child">>, <<Basic, Ref("B")>>),
      Obj(<<"list">>, <<Arr(Ref("A"))>>),
      Arr(Ref("A")),
      OneOf(<<Ref("A"), Basic>>),
      AllOf(<<Ref("A"), Obj(<<"id">>, <<Basic>>)>>) }

SchemasB ==
    { Basic, Ref("A"), Obj(<<"back">>, <<Ref("A")>>), AllOf(<<Ref("B")>>) }

OpenAPISpecs == {[n \in {"A", "B"} |-> IF n = "A" THEN a ELSE b] : a \in SchemasA, b \in SchemasB}

\* The schema of a response of an operation.
ResponseSchemas ==
    { Ref("A"), Ref("B"), Ref("C"), Obj(<<"data">>, <<Ref("A")>>), Arr(Ref("B")),
      OneOf(<<Ref("A"), Ref("B")>>) }

RECURSIVE resolveRef(_, _, _, _)
\* resolveRef(ref, spec, depth, visited); visited grows by ref.
resolveRef(ref, spec, depth, visited) ==
    IF depth >= MAX_REF_DEPTH \/ ref \in visited THEN Stub("see", ref)
    ELSE IF ref \notin DOMAIN spec THEN Stub("not found", ref)
    ELSE IF spec[ref].kind = "ref"
    THEN resolveRef(spec[ref].ref, spec, depth + 1, visited \cup {ref})
    ELSE spec[ref]

\* resolveSchema(schema, spec): depth 0 and an empty visited set.
resolveSchema(schema, spec) ==
    IF schema.kind = "ref" THEN resolveRef(schema.ref, spec, 0, {}) ELSE schema

\* The index of the last property of this name: Object.assign overwrites.
LastOf(names, i) == \A j \in (i + 1)..Len(names) : names[j] # names[i]

RECURSIVE PropsOf(_, _)
\* The properties of the schemas of an allOf, resolved, one after another.
PropsOf(subs, spec) ==
    IF subs = <<>> THEN [names |-> <<>>, subs |-> <<>>]
    ELSE LET resolved == resolveSchema(Head(subs), spec)
             rest == PropsOf(Tail(subs), spec)
         IN  IF resolved.kind = "object"
             THEN [names |-> resolved.names \o rest.names, subs |-> resolved.subs \o rest.subs]
             ELSE rest

\* mergeAllOf(schemas, spec): one object with the properties of all.  A
\* property assigned again keeps its place and takes the later schema.
mergeAllOf(subs, spec) ==
    LET all == PropsOf(subs, spec)
        place(i) == CHOOSE j \in 1..i : all.names[j] = all.names[i]
        firsts == SelectSeq([i \in 1..Len(all.names) |-> i], LAMBDA i : place(i) = i)
        last(i) == CHOOSE j \in i..Len(all.names) : all.names[j] = all.names[i] /\ LastOf(all.names, j)
    IN  Obj([k \in 1..Len(firsts) |-> all.names[firsts[k]]],
            [k \in 1..Len(firsts) |-> all.subs[last(firsts[k])]])

\* A line of Markdown: its indent ('  '.repeat(depth)) and what it says.
Line(depth, what, name) == [indent |-> depth, what |-> what, name |-> name]

TooDeep == Line(0, "too deep", "")

\* `[循环引用: Name]`
CycleSentinel(name) == Line(0, "cycle", name)

RECURSIVE renderSchemaBlock(_, _, _, _)
RECURSIVE RenderVariants(_, _, _, _)
RECURSIVE RenderProps(_, _, _, _, _)

\* The lines of the variants of a oneOf.
RenderVariants(subs, spec, depth, visited) ==
    IF subs = <<>> THEN <<>>
    ELSE <<Line(depth, "variant", "")>>
         \o renderSchemaBlock(Head(subs), spec, depth + 1, visited)
         \o RenderVariants(Tail(subs), spec, depth, visited)

\* The lines of the properties of an object.
RenderProps(names, subs, spec, depth, visited) ==
    IF names = <<>> THEN <<>>
    ELSE LET resolvedProp == resolveSchema(Head(subs), spec)
             itemResolved == resolveSchema(resolvedProp.subs[1], spec)
         IN  <<Line(depth, IF resolvedProp.kind = "stub" THEN resolvedProp.names[1]
                           ELSE "property", Head(names))>>
             \o (IF resolvedProp.kind = "object"
                 THEN renderSchemaBlock(resolvedProp, spec, depth + 1, visited)
                 ELSE IF resolvedProp.kind = "array" /\ itemResolved.kind = "object"
                 THEN <<Line(depth, "items", "")>>
                      \o renderSchemaBlock(itemResolved, spec, depth + 2, visited)
                 ELSE <<>>)
             \o RenderProps(Tail(names), Tail(subs), spec, depth, visited)

\* renderSchemaBlock(schema, spec, depth, visited): the lines it joins.
renderSchemaBlock(schema, spec, depth, visited) ==
    IF depth > MAX_REF_DEPTH THEN <<TooDeep>>
    ELSE IF schema.kind = "ref"
    THEN IF schema.ref \in visited THEN <<CycleSentinel(schema.ref)>>
         ELSE renderSchemaBlock(
                  resolveRef(schema.ref, spec, depth, visited \cup {schema.ref}),
                  spec, depth, visited \cup {schema.ref})
    ELSE IF schema.kind = "allOf"
    THEN renderSchemaBlock(mergeAllOf(schema.subs, spec), spec, depth, visited)
    ELSE IF schema.kind = "oneOf"
    THEN <<Line(depth, "oneOf", "")>> \o RenderVariants(schema.subs, spec, depth, visited)
    ELSE IF schema.kind = "array"
    THEN <<Line(depth, "array", "")>>
         \o renderSchemaBlock(resolveSchema(schema.subs[1], spec), spec, depth + 1, visited)
    ELSE IF schema.kind = "object"
    THEN RenderProps(schema.names, schema.subs, spec, depth, visited)
    ELSE <<Line(depth, IF schema.kind = "stub" THEN schema.names[1] ELSE "type", schema.ref)>>

\* loadSpec: the spec is fetched, parsed and cached.
LoadSpec(spec) ==
    /\ adapters.openapi.cachedSpec = <<>>
    /\ adapters' = [adapters EXCEPT !.openapi.cachedSpec = <<spec>>]
    /\ UNCHANGED <<sync, server>>

\* renderOperation, for a response with this schema.
RenderResponse(schema) ==
    /\ adapters.openapi.cachedSpec # <<>>
    /\ LET spec == adapters.openapi.cachedSpec[1]
       IN  adapters' = [adapters EXCEPT !.openapi.rendered =
               <<[schema |-> schema,
                  lines |-> renderSchemaBlock(resolveSchema(schema, spec), spec, 0, {})]>>]
    /\ UNCHANGED <<sync, server>>

RenderNext ==
    \/ \E spec \in OpenAPISpecs : LoadSpec(spec)
    \/ \E schema \in ResponseSchemas : RenderResponse(schema)

RenderSpec == Init /\ [][RenderNext]_vars

RECURSIVE RefsIn(_)
\* The names a schema refers to, itself or in its parts.
RefsIn(schema) ==
    IF schema.kind = "ref" THEN {schema.ref}
    ELSE UNION {RefsIn(schema.subs[i]) : i \in DOMAIN schema.subs}

RECURSIVE ReachedFrom(_, _, _)
\* The names reached from the names in from by following references, in at
\* most n steps.
ReachedFrom(from, spec, n) ==
    IF n = 0 THEN from
    ELSE ReachedFrom(from \cup UNION {RefsIn(spec[m]) : m \in from \cap DOMAIN spec},
                     spec, n - 1)

\* The schemas of a spec that a schema reaches and that refer to themselves,
\* directly or through others.
CyclesUnder(schema, spec) ==
    {m \in ReachedFrom(RefsIn(schema), spec, 2) \cap DOMAIN spec :
        m \in ReachedFrom(RefsIn(spec[m]), spec, 2)}

\* C27: a schema is rendered whatever the references of the spec (the
\* rendering ends), no line lies deeper than MAX_REF_DEPTH, and where the
\* schema reaches one that refers to itself, directly or through properties,
\* items, allOf or oneOf, the reference that closes the cycle is rendered as
\* the sentinel of that schema.
C27_CyclesEndInSentinel ==
    adapters.openapi.rendered # <<>> =>
        LET r == adapters.openapi.rendered[1]
        IN  /\ \A i \in DOMAIN r.lines : r.lines[i].indent <= MAX_REF_DEPTH
            /\ CyclesUnder(r.schema, adapters.openapi.cachedSpec[1]) # {} =>
                   \E i \in DOMAIN r.lines :
                       \E m \in DOMAIN adapters.openapi.cachedSpec[1] :
                           r.lines[i] = CycleSentinel(m)

----------------------------------------------------------------------------
\* Wecom adapter (WecomSource in part_008): throttle and fetchDocContent
\*
\* The call of fetchDocContent is [docId, attempt, waits, pc]: docId by its
\* pieces, attempt the parameter of the innermost call of the retry chain,
\* waits the delays of the retries, each with the answer that caused it.
\* One fetchContent is followed to its end before the next begins.

\* Calls of fetchContent in a behaviour of WecomSpec.
MaxRequests == 201

\* The ids of the documents, by their pieces: 90196 and 14290.
WecomDocIds == {<<"90196">>, <<"1", "429", "0">>}

\* What the POST of fetchCnt (or the GET of the page) can give: the
\* document, result.errCode 500003, a page with the showDeveloperCaptcha
\* marker, another errCode, HTTP 429, any other failure.
WecomAnswers == {"data", "captcha", "marker", "errCode", "429", "failed"}

\* error.message of what fetchDocContent catches, by its pieces.
ErrorMessage(docId, answer) ==
    CASE answer \in {"captcha", "marker"} ->
             <<"Doc ">> \o docId \o <<" fetch error: ", "500003", " captcha">>
      [] answer = "errCode" -> <<"Doc ">> \o docId \o <<" fetch error: ", "40001">>
      [] answer = "429" -> <<"Request failed with status code ", "429">>
      [] OTHER -> <<"Network Error">>

\* message.includes(needle), for a needle that is a piece.
Holds(message, needle) == \E i \in DOMAIN message : message[i] = needle

\* The catch block of fetchDocContent: the delay before the retry, <<>> when
\* the error is thrown again.
WecomRetryDelay(docId, answer, attempt) ==
    LET message == ErrorMessage(docId, answer)
    IN  IF (answer = "429" \/ Holds(message, "429")) /\ attempt < 5
        THEN <<1500 * (attempt + 1)>>
        ELSE IF Holds(message, "500003") /\ attempt < 3
        THEN <<3000 * (attempt + 1)>>
        ELSE <<>>

getDelayMs(requestCount) ==
    IF requestCount < 100 THEN 1200
    ELSE IF requestCount < 200 THEN 1800
    ELSE 2500

\* fetchContent: throttle counts the request and awaits the delay, then
\* fetchDocContent is called.
WecomFetchContent(docId) ==
    /\ adapters.wecom.requestCount < MaxRequests
    /\ IF adapters.wecom.call = <<>> THEN TRUE ELSE adapters.wecom.call[1].pc # "post"
    /\ adapters' = [adapters EXCEPT !.wecom =
           [requestCount |-> @.requestCount + 1,
            slept |-> getDelayMs(@.requestCount + 1),
            call |-> <<[docId |-> docId, attempt |-> 0, waits |-> <<>>, pc |-> "post"]>>]]
    /\ UNCHANGED <<sync, server>>

\* The request of fetchDocContent is answered: the document is returned, or
\* the error is caught and, after the delay, fetchDocContent is called with
\* attempt + 1, or the error is thrown again.
WecomAnswered(answer) ==
    /\ adapters.wecom.call # <<>>
    /\ adapters.wecom.call[1].pc = "post"
    /\ LET c == adapters.wecom.call[1]
           delay == WecomRetryDelay(c.docId, answer, c.attempt)
       IN  adapters' = [adapters EXCEPT !.wecom.call =
               IF answer = "data" THEN <<[c EXCEPT !.pc = "returned"]>>
               ELSE IF delay = <<>> THEN <<[c EXCEPT !.pc = "thrown"]>>
               ELSE <<[c EXCEPT !.attempt = @ + 1,
                                !.waits = Append(@, [after |-> answer, ms |-> delay[1]])]>>]
    /\ UNCHANGED <<sync, server>>

WecomNext ==
    \/ \E docId \in WecomDocIds : WecomFetchContent(docId)
    \/ \E answer \in WecomAnswers : WecomAnswered(answer)

WecomSpec == Init /\ [][WecomNext]_vars

\* C28: a fetch of a Wecom document ends after at most five retries; a
\* retry after a captcha answer (errCode 500003 or the showDeveloperCaptcha
\* marker) is one of at most three and follows a wait of 3 s x (attempt + 1),
\* a retry after an HTTP 429 is one of at most five and follows a wait of
\* 1.5 s x (attempt + 1); no other answer is retried.
C28_BoundedRetries ==
    adapters.wecom.call # <<>> =>
        LET c == adapters.wecom.call[1]
        IN  /\ Len(c.waits) <= 5
            /\ \A k \in DOMAIN c.waits :
                   \/ /\ c.waits[k].after \in {"captcha", "marker"}
                      /\ k <= 3
                      /\ c.waits[k].ms = 3000 * k
                   \/ /\ c.waits[k].after = "429"
                      /\ c.waits[k].ms = 1500 * k

\* C29: the delay before the N-th content request of a run is 1200 ms for
\* N <= 100, 1800 ms for 100 < N <= 200 and 2500 ms for N > 200; the adapter
\* of a run counts from zero.
C29_DelayByRequestNumber ==
    /\ Created.wecom.requestCount = 0
    /\ adapters.wecom.requestCount >= 1 =>
           adapters.wecom.slept =
               IF adapters.wecom.requestCount <= 100 THEN 1200
               ELSE IF adapters.wecom.requestCount <= 200 THEN 1800
               ELSE 2500

\* C30: every result of a search asked with a source has that source_id and
\* every result of a search asked with a mode has that dev_mode, whether the
\* query is an error code, an API path or keywords.
C30_FiltersHold ==
    SearchReply =>
        \A i \in DOMAIN resp.body.results :
            Filtered(documents[resp.body.results[i].id],
                     OrUndefined(resp.req, "source"), OrUndefined(resp.req, "mode"))

====
